---- MODULE Spec2Model ----
(***************************************************************************)
(* Release-summary pipeline of the ctx orchestrator                        *)
(* (packages/orchestrator/src/workflows/app-release-summary.ts) together   *)
(* with the shared step runner and response envelope, the Jira and GitHub  *)
(* collaborators it calls, and the log / branch utilities it uses.         *)
(*                                                                         *)
(* Conventions                                                             *)
(*  - a JavaScript string that the code inspects character by character    *)
(*    is a sequence of one-character strings;                              *)
(*  - a message (an error text, a summary) is the sequence of the parts   *)
(*    of its template literal, see Lit, Txt and Num;                       *)
(*  - an optional value (T | undefined | null) is a sequence of length     *)
(*    at most one: << >> is the absent value, <<v>> the present one;       *)
(*  - timestamps and the verification token of the response envelope are   *)
(*    not modelled: no code of the pipeline reads them.                    *)
(***************************************************************************)
EXTENDS Integers, Sequences, FiniteSets, TLC

VARIABLES
    \* ---- step-runner harness (runStep called on an arbitrary unit of work)
    rsCalls,        \* number of runStep calls made so far
    rsWork,         \* the outcome of the unit of work of the last call
    rsOutcome,      \* what that call of runStep did: returned a StepResult or threw
    \* ---- utility harness (one call of a pure function of the libraries)
    utilCall,       \* the function called and its arguments
    utilResult,     \* what the call returned, absent until it has
    \* ---- tool handlers of the Confluence server
    invocations,    \* the tool invocations so far: tool, dry_run argument, result
    requests,       \* the page requests issued so far: method, path, invocation
    \* ---- one invocation of runAppReleaseSummary
    pc,             \* the await the invocation is suspended at
    input,          \* AppReleaseSummaryInput
    steps,          \* ReleaseSummaryReport["steps"]
    assigned,       \* the slots of steps assigned so far, in order of assignment
    calls,          \* the collaborator calls issued so far, in order of issue
    answers,        \* answers[i]: the answer to calls[i], absent while it is in flight
    resolvedVersion,
    issues,         \* the local const issues (<< >> until step 2 succeeded)
    locals,         \* closure locals of steps 4 and 5 that outlive a continuation
    response        \* the returned ToolResponse<ReleaseSummaryReport>, once returned

utilVars == <<utilCall, utilResult>>
harnessVars == <<rsCalls, rsWork, rsOutcome, utilCall, utilResult, invocations, requests>>
pipelineVars == <<pc, input, steps, assigned, calls, answers, resolvedVersion,
                  issues, locals, response>>
vars == <<rsCalls, rsWork, rsOutcome, utilCall, utilResult, invocations, requests, pc, input, steps, assigned, calls, answers,
          resolvedVersion, issues, locals, response>>

(***************************************************************************)
(* Bounds of the model                                                     *)
(***************************************************************************)
MaxCalls == 4        \* runStep calls explored by the harness
MaxElapsed == 2      \* largest elapsed time (ms) a unit of work is observed to take
MaxPage == 2         \* largest "last page" the repository listing reports

(***************************************************************************)
(* Generic helpers                                                         *)
(***************************************************************************)
None == << >>
Some(v) == <<v>>
IsSome(o) == Len(o) > 0
Get(o) == o[1]

Range(s) == {s[i] : i \in 1..Len(s)}

RECURSIVE Flat(_)
\* Array.prototype.flat(): concatenation of a sequence of sequences.
Flat(ss) == IF ss = << >> THEN << >> ELSE Head(ss) \o Flat(Tail(ss))

RECURSIVE Distinct(_)
\* [...new Set(s)]: the distinct elements of s in order of first appearance.
Distinct(s) ==
    IF s = << >> THEN << >>
    ELSE LET init == Distinct(SubSeq(s, 1, Len(s) - 1))
             last == s[Len(s)]
         IN IF last \in Range(init) THEN init ELSE Append(init, last)

UpperCase == <<"A","B","C","D","E","F","G","H","I","J","K","L","M",
               "N","O","P","Q","R","S","T","U","V","W","X","Y","Z">>
LowerCase == <<"a","b","c","d","e","f","g","h","i","j","k","l","m",
               "n","o","p","q","r","s","t","u","v","w","x","y","z">>

\* String.prototype.toLowerCase(), one character.
LowerChar(c) ==
    IF \E i \in 1..26 : UpperCase[i] = c
    THEN LowerCase[CHOOSE i \in 1..26 : UpperCase[i] = c]
    ELSE c
ToLowerCase(s) == [i \in 1..Len(s) |-> LowerChar(s[i])]

\* Whether sub occurs in s starting at position i (1-based).
OccursAt(s, sub, i) ==
    /\ i >= 1
    /\ i + Len(sub) - 1 <= Len(s)
    /\ \A k \in 1..Len(sub) : s[i + k - 1] = sub[k]
\* String.prototype.includes / startsWith / endsWith
Includes(s, sub) == \E i \in 1..(Len(s) + 1) : OccursAt(s, sub, i)
StartsWith(s, sub) == OccursAt(s, sub, 1)
EndsWith(s, sub) == Len(sub) <= Len(s) /\ OccursAt(s, sub, Len(s) - Len(sub) + 1)

\* Messages: a sequence of parts, each part a sequence of strings. Lit is a
\* literal fragment of a template, Txt an interpolated string, Num a number.
Lit(t) == << <<t>> >>
Txt(cs) == << cs >>
Num(n) == << <<ToString(n)>> >>

(***************************************************************************)
(* Response envelope (shared)                                              *)
(***************************************************************************)
BuildResponse(data, summary) ==
    [success |-> TRUE, data |-> data, summary |-> summary, errors |-> << >>]
BuildError(error, data) ==
    [success |-> FALSE, data |-> data, summary |-> error, errors |-> <<error>>]

(***************************************************************************)
(* Step result primitive and step runner (shared)                          *)
(***************************************************************************)
PendingStep == [status |-> "pending", data |-> None, error |-> None, durationMs |-> 0]
SkipStep == [status |-> "skipped", data |-> None, error |-> None, durationMs |-> 0]

\* Outcomes of a unit of work: it returns a value, throws an Error carrying a
\* message, or throws a value that is no Error.
Returns(v) == [kind |-> "returns", value |-> Some(v), message |-> None, thrown |-> None]
ThrowsError(m) == [kind |-> "throwsError", value |-> None, message |-> Some(m), thrown |-> None]
ThrowsValue(x) == [kind |-> "throwsValue", value |-> None, message |-> None, thrown |-> Some(x)]

\* JavaScript values that are no Error, as far as String() tells them apart.
JsString(t) == [type |-> "string", text |-> t, message |-> None]
JsUndefined == [type |-> "undefined", text |-> "", message |-> None]
JsPlainObject(m) == [type |-> "object", text |-> "", message |-> Some(m)]
JsNullProtoObject == [type |-> "nullProtoObject", text |-> "", message |-> None]

\* String(e): the text, or a TypeError when e has no conversion to a primitive
\* (an object without toString and valueOf, e.g. Object.create(null)).
StringOf(e) ==
    CASE e.type = "string" -> [threw |-> FALSE, text |-> Lit(e.text)]
      [] e.type = "undefined" -> [threw |-> FALSE, text |-> Lit("undefined")]
      [] e.type = "object" -> [threw |-> FALSE, text |-> Lit("[object Object]")]
      [] e.type = "nullProtoObject" ->
            [threw |-> TRUE, text |-> Lit("Cannot convert object to primitive value")]

\* runStep(name, fn), fn having the outcome work and taking elapsed ms: the
\* StepResult it returns, or the error that escapes it when the catch block
\* itself throws.
RunStep(work, elapsed) ==
    IF work.kind = "returns"
    THEN [threw |-> FALSE,
          result |-> Some([status |-> "success", data |-> work.value, error |-> None,
                           durationMs |-> elapsed])]
    ELSE LET conv == IF work.kind = "throwsError"
                     THEN [threw |-> FALSE, text |-> Get(work.message)]
                     ELSE StringOf(Get(work.thrown))
         IN IF conv.threw
            THEN [threw |-> TRUE, result |-> None]
            ELSE [threw |-> FALSE,
                  result |-> Some([status |-> "failed", data |-> None,
                                   error |-> Some(conv.text), durationMs |-> elapsed])]

(***************************************************************************)
(* Branch Matcher (github/lib/branches.ts)                                 *)
(***************************************************************************)
\* Index of the first occurrence of character c in s at or after from; 0 if none.
IndexOfChar(s, c, from) ==
    IF \E i \in from..Len(s) : s[i] = c
    THEN CHOOSE i \in from..Len(s) : s[i] = c /\ \A j \in from..(i - 1) : s[j] # c
    ELSE 0

\* The character class [/_-] of the pattern.
Delimiters == {"/", "_", "-"}

\* A pattern whose separator is not optional: [-_] in place of [-_]??.
IdVariantsSeparated(id) ==
    LET h == IndexOfChar(id, "-", 1)
    IN IF h = 0 THEN {id}
       ELSE {SubSeq(id, 1, h - 1) \o <<d>> \o SubSeq(id, h + 1, Len(id)) : d \in {"-", "_"}}

\* The texts the middle of the pattern, id.replace("-", "[-_]??"), matches:
\* String.replace with a string pattern rewrites the first hyphen only; the
\* identifiers of the model are letters, digits and hyphens, which the RegExp
\* constructor reads literally.
IdVariants(id) ==
    LET h == IndexOfChar(id, "-", 1)
    IN IF h = 0 THEN {id}
       ELSE LET head == SubSeq(id, 1, h - 1)
                tail == SubSeq(id, h + 1, Len(id))
            IN {head \o tail} \cup {head \o <<d>> \o tail : d \in {"-", "_"}}

\* new RegExp(`(^|[/_-])${...}([/_-]|$)`, "i").test(name)
RegexTest(id, name) ==
    LET n == ToLowerCase(name)
    IN \E v \in IdVariants(ToLowerCase(id)) :
         \E p \in 1..(Len(n) + 1) :
            /\ p = 1 \/ n[p - 1] \in Delimiters
            /\ OccursAt(n, v, p)
            /\ p + Len(v) = Len(n) + 1 \/ n[p + Len(v)] \in Delimiters

\* An inner loop that stops at the first identifier that matches.
BranchMatchesOfFirstOnly(branch, jiraIds) ==
    LET hit == SelectSeq(jiraIds, LAMBDA id : RegexTest(id, branch.name))
    IN IF Len(hit) = 0 THEN << >>
       ELSE <<[jiraId |-> hit[1], branchName |-> branch.name, repo |-> branch.repo]>>

\* The matches of one branch, in identifier order (the inner loop).
BranchMatchesOf(branch, jiraIds) ==
    LET hit == SelectSeq(jiraIds, LAMBDA id : RegexTest(id, branch.name))
    IN [k \in 1..Len(hit) |->
          [jiraId |-> hit[k], branchName |-> branch.name, repo |-> branch.repo]]

FindBranchesMatchingJiraIds(branches, jiraIds) ==
    IF Len(jiraIds) = 0 \/ Len(branches) = 0 THEN << >>
    ELSE Flat([b \in 1..Len(branches) |-> BranchMatchesOf(branches[b], jiraIds)])

(***************************************************************************)
(* Log archive extractor, deploy-log locator (github/lib/logs)             *)
(***************************************************************************)
\* An archive is [malformed, entries]; an entry [entryName, isDirectory,
\* content, unreadable]. new AdmZip(buffer) throws on malformed bytes, and
\* zip.readAsText(entry) throws on an entry whose data cannot be inflated.
KeptEntry(e, fileFilter) ==
    /\ ~e.isDirectory
    /\ \/ ~IsSome(fileFilter)
       \/ Len(Get(fileFilter)) = 0
       \/ Includes(ToLowerCase(e.entryName), ToLowerCase(Get(fileFilter)))

\* An extractor whose catch block hands back the entries read so far.
ExtractLogsFromZipPartial(zip, fileFilter) ==
    LET kept == SelectSeq(zip.entries, LAMBDA e : KeptEntry(e, fileFilter))
        bad == {i \in 1..Len(kept) : kept[i].unreadable}
        upto == IF bad = {} THEN Len(kept)
                ELSE (CHOOSE i \in bad : \A j \in bad : i <= j) - 1
        logs == [i \in 1..upto |->
                   [fileName |-> kept[i].entryName, content |-> kept[i].content]]
    IN IF zip.malformed
       THEN BuildError(Lit("Failed to extract log zip: ")
                       \o Lit("Invalid or unsupported zip format"), << >>)
       ELSE IF bad # {}
       THEN BuildError(Lit("Failed to extract log zip: ") \o Lit("Invalid entry data"), logs)
       ELSE BuildResponse(logs, Lit("Extracted ") \o Num(Len(logs)) \o Lit(" log file(s) from zip."))

ExtractLogsFromZip(zip, fileFilter) ==
    LET kept == SelectSeq(zip.entries, LAMBDA e : KeptEntry(e, fileFilter))
        logs == [i \in 1..Len(kept) |->
                   [fileName |-> kept[i].entryName, content |-> kept[i].content]]
    IN IF zip.malformed
       THEN BuildError(Lit("Failed to extract log zip: ")
                       \o Lit("Invalid or unsupported zip format"), << >>)
       ELSE IF \E i \in 1..Len(kept) : kept[i].unreadable
       THEN BuildError(Lit("Failed to extract log zip: ") \o Lit("Invalid entry data"), << >>)
       ELSE BuildResponse(logs, Lit("Extracted ") \o Num(Len(logs)) \o Lit(" log file(s) from zip."))

DeployMarker ==
    <<"d","e","p","l","o","y"," ","t","r","i","g","g","e","r"," ","s","t","a","g","e">>

\* A locator that keeps the last qualifying entry.
FindDeployTriggerStageLogLast(entries) ==
    LET hit == SelectSeq(entries, LAMBDA e : Includes(ToLowerCase(e.fileName), DeployMarker))
    IN IF Len(hit) > 0
       THEN BuildResponse(Some(hit[Len(hit)]),
                          Lit("Found Deploy Trigger Stage log: ") \o Txt(hit[Len(hit)].fileName))
       ELSE BuildResponse(None, Lit("No Deploy Trigger Stage log entry found in zip."))

FindDeployTriggerStageLog(entries) ==
    LET hit == SelectSeq(entries, LAMBDA e : Includes(ToLowerCase(e.fileName), DeployMarker))
    IN IF Len(hit) > 0
       THEN BuildResponse(Some(hit[1]),
                          Lit("Found Deploy Trigger Stage log: ") \o Txt(hit[1].fileName))
       ELSE BuildResponse(None, Lit("No Deploy Trigger Stage log entry found in zip."))

(***************************************************************************)
(* JSON.parse, for the texts of the model: objects, strings without        *)
(* escapes, integers and the literals true, false and null, separated by   *)
(* JSON whitespace. The log texts of the model use no backslash, bracket,  *)
(* fraction or exponent.                                                   *)
(***************************************************************************)
Whitespace == {" ", "\t", "\n", "\r"}
Digits == {"0", "1", "2", "3", "4", "5", "6", "7", "8", "9"}

\* s[i], or "" past either end of s.
At(s, i) == IF i >= 1 /\ i <= Len(s) THEN s[i] ELSE ""

RECURSIVE SkipWs(_, _)
SkipWs(s, i) == IF At(s, i) \in Whitespace THEN SkipWs(s, i + 1) ELSE i

RECURSIVE SkipDigits(_, _)
SkipDigits(s, i) == IF At(s, i) \in Digits THEN SkipDigits(s, i + 1) ELSE i

JString(cs) == [t |-> "string", s |-> cs, m |-> << >>]
JNumber(cs) == [t |-> "number", s |-> cs, m |-> << >>]
JLiteral(cs) == [t |-> "literal", s |-> cs, m |-> << >>]
JObject(members) == [t |-> "object", s |-> << >>, m |-> members]

ParseFail == [ok |-> FALSE, val |-> JLiteral(<< >>), next |-> 0]
ParseOk(v, n) == [ok |-> TRUE, val |-> v, next |-> n]

\* Object members as JSON.parse keeps them: one per key, in order of the key's
\* first appearance, holding the value of its last appearance.
ObjectOf(members) ==
    LET keys == Distinct([i \in 1..Len(members) |-> members[i].k])
        lastOf(k) == CHOOSE i \in 1..Len(members) :
                        /\ members[i].k = k
                        /\ \A j \in (i + 1)..Len(members) : members[j].k # k
    IN JObject([i \in 1..Len(keys) |-> [k |-> keys[i], v |-> members[lastOf(keys[i])].v]])

ParseString(s, i) ==
    LET close == IndexOfChar(s, "\"", i + 1)
    IN IF At(s, i) # "\"" \/ close = 0 THEN ParseFail
       ELSE IF \E j \in (i + 1)..(close - 1) : s[j] \in {"\t", "\n", "\r"} THEN ParseFail
       ELSE ParseOk(JString(SubSeq(s, i + 1, close - 1)), close + 1)

ParseNumber(s, i) ==
    LET d == IF At(s, i) = "-" THEN i + 1 ELSE i
        e == SkipDigits(s, d)
    IN IF e = d THEN ParseFail
       ELSE IF At(s, d) = "0" /\ e > d + 1 THEN ParseOk(JNumber(SubSeq(s, i, d)), d + 1)
       ELSE ParseOk(JNumber(SubSeq(s, i, e - 1)), e)

ParseLiteral(s, i) ==
    LET lits == {<<"t","r","u","e">>, <<"f","a","l","s","e">>, <<"n","u","l","l">>}
    IN IF \E l \in lits : OccursAt(s, l, i)
       THEN LET l == CHOOSE l \in lits : OccursAt(s, l, i)
            IN ParseOk(JLiteral(l), i + Len(l))
       ELSE ParseFail

RECURSIVE ParseValue(_, _)
RECURSIVE ParseMembers(_, _, _)

\* The members of an object from position i (a key is expected there).
ParseMembers(s, i, acc) ==
    LET key == ParseString(s, i)
        colon == SkipWs(s, key.next)
        val == ParseValue(s, SkipWs(s, colon + 1))
        after == SkipWs(s, val.next)
        members == Append(acc, [k |-> key.val.s, v |-> val.val])
    IN IF ~key.ok THEN ParseFail
       ELSE IF At(s, colon) # ":" THEN ParseFail
       ELSE IF ~val.ok THEN ParseFail
       ELSE IF At(s, after) = "," THEN ParseMembers(s, SkipWs(s, after + 1), members)
       ELSE IF At(s, after) = "}" THEN ParseOk(ObjectOf(members), after + 1)
       ELSE ParseFail

ParseValue(s, i) ==
    LET c == At(s, i)
    IN IF c = "{"
       THEN LET j == SkipWs(s, i + 1)
            IN IF At(s, j) = "}" THEN ParseOk(JObject(<< >>), j + 1)
               ELSE ParseMembers(s, j, << >>)
       ELSE IF c = "\"" THEN ParseString(s, i)
       ELSE IF c = "-" \/ c \in Digits THEN ParseNumber(s, i)
       ELSE ParseLiteral(s, i)

\* JSON.parse(text): the value, or a SyntaxError.
JsonParse(text) ==
    LET v == ParseValue(text, SkipWs(text, 1))
    IN IF v.ok /\ SkipWs(text, v.next) = Len(text) + 1 THEN v ELSE ParseFail

(***************************************************************************)
(* Payload extractor (github/lib/logs)                                     *)
(***************************************************************************)
PayloadWord == <<"p","a","y","l","o","a","d">>

\* A search without the i flag, which finds the capitalised word only.
SearchPayloadMarkerCaseSensitive(s) ==
    LET word == <<"P","a","y","l","o","a","d">>
        hit(i) == /\ OccursAt(s, word, i)
                  /\ At(s, SkipWs(s, i + Len(word))) = ":"
    IN IF \E i \in 1..Len(s) : hit(i)
       THEN CHOOSE i \in 1..Len(s) : hit(i) /\ \A j \in 1..(i - 1) : ~hit(j)
       ELSE 0

\* logContent.search(/Payload\s*:/i) as a 1-based index; 0 when there is no match.
SearchPayloadMarker(s) ==
    LET low == ToLowerCase(s)
        hit(i) == /\ OccursAt(low, PayloadWord, i)
                  /\ At(s, SkipWs(s, i + Len(PayloadWord))) = ":"
    IN IF \E i \in 1..Len(s) : hit(i)
       THEN CHOOSE i \in 1..Len(s) : hit(i) /\ \A j \in 1..(i - 1) : ~hit(j)
       ELSE 0

RECURSIVE ScanBracesOutsideStrings(_, _, _)
\* A scan that passes over the braces standing inside a quoted string.
ScanBracesOutsideStrings(s, i, depth) ==
    LET quoted == Cardinality({q \in 1..(i - 1) : s[q] = "\""}) % 2 = 1
    IN IF i > Len(s) THEN 0
       ELSE IF quoted THEN ScanBracesOutsideStrings(s, i + 1, depth)
       ELSE IF s[i] = "{" THEN ScanBracesOutsideStrings(s, i + 1, depth + 1)
       ELSE IF s[i] = "}"
            THEN IF depth - 1 = 0 THEN i ELSE ScanBracesOutsideStrings(s, i + 1, depth - 1)
       ELSE ScanBracesOutsideStrings(s, i + 1, depth)

RECURSIVE ScanBraces(_, _, _)
\* The scan loop from index i with the depth so far: the index at which the
\* depth returns to zero, 0 when the text ends first.
ScanBraces(s, i, depth) ==
    IF i > Len(s) THEN 0
    ELSE IF s[i] = "{" THEN ScanBraces(s, i + 1, depth + 1)
    ELSE IF s[i] = "}"
         THEN IF depth - 1 = 0 THEN i ELSE ScanBraces(s, i + 1, depth - 1)
    ELSE ScanBraces(s, i + 1, depth)

ExtractPayloadObject(logContent) ==
    LET payloadIdx == SearchPayloadMarker(logContent)
        braceStart == IndexOfChar(logContent, "{", payloadIdx)
        end == ScanBraces(logContent, braceStart, 0)
        rawMatch == SubSeq(logContent, braceStart, end)
        parsed == JsonParse(rawMatch)
    IN IF payloadIdx = 0
       THEN BuildResponse(None, Lit("No 'Payload:' marker found in log content."))
       ELSE IF braceStart = 0
       THEN BuildResponse(None, Lit("'Payload:' found but no '{' follows it."))
       ELSE IF end = 0
       THEN BuildError(Lit("Found 'Payload: {' but could not find matching closing brace."),
                       None)
       ELSE IF ~parsed.ok
       THEN BuildError(Lit("Failed to extract payload object: ") \o Lit("SyntaxError"), None)
       ELSE BuildResponse(Some(parsed.val),
                          Lit("Payload object extracted successfully. Keys: ")
                          \o [i \in 1..Len(parsed.val.m) |-> parsed.val.m[i].k] \o Lit("."))

(***************************************************************************)
(* Collaborators: what the remote services may answer                      *)
(***************************************************************************)
\* jiraConfig.projectKey, githubConfig.appId
ConfigProjectKey == <<"P","R","O","J">>
AppId == <<"A","p","p">>

KeyAB1 == <<"A","B","-","1">>
KeyAB2 == <<"A","B","-","2">>
KeyAB3 == <<"A","B","-","3">>
KeyFE1 == <<"F","E","-","1">>
KeyFE2 == <<"F","E","-","2">>

\* JiraIssue: key, fields.parent?.key, fields.summary, fields.status?.name
Issue(key, parent) ==
    [key |-> key, parent |-> parent, summary |-> <<"s">> \o key, status |-> <<"Open">>]

\* What GET /project/{key}/versions answers: an HTTP failure or a version list.
Version(name, released, archived) == [name |-> name, released |-> released, archived |-> archived]
VersionsAnswers ==
    { [ok |-> FALSE, versions |-> << >>],
      [ok |-> TRUE, versions |-> << >>],
      [ok |-> TRUE, versions |-> <<Version("1.0", TRUE, FALSE), Version("0.9", FALSE, TRUE)>>],
      [ok |-> TRUE, versions |-> <<Version("1.0", TRUE, FALSE), Version("1.1", FALSE, FALSE),
                                   Version("1.2", FALSE, FALSE)>>] }

\* What POST /search answers to the step-2 query.
SearchAnswers ==
    { [ok |-> FALSE, issues |-> << >>],
      [ok |-> TRUE, issues |-> << >>],
      [ok |-> TRUE, issues |-> <<Issue(KeyAB2, None), Issue(KeyAB1, Some(<< >>))>>],
      [ok |-> TRUE, issues |-> <<Issue(KeyAB1, Some(KeyFE2)), Issue(KeyAB2, None),
                                 Issue(KeyAB3, Some(KeyFE1)),
                                 Issue(<<"A","B","-","4">>, Some(KeyFE2))>>] }

\* What POST /search answers to the bulk fetch of keys: a failure, every
\* requested issue, or only the first one.
BulkAnswers(keys) ==
    { [ok |-> FALSE, issues |-> << >>],
      [ok |-> TRUE, issues |-> [i \in 1..Len(keys) |-> Issue(keys[i], None)]],
      [ok |-> TRUE, issues |-> <<Issue(keys[1], None)>>] }

\* GithubRepo: name, archived. The organisation's repositories, by page.
Repo(name, archived) == [name |-> name, archived |-> archived]
RepoSvc == Repo(<<"a","p","p","-","s","v","c">>, FALSE)
RepoCd == Repo(<<"a","p","p","-","c","d">>, FALSE)
RepoOld == Repo(<<"A","P","P","-","o","l","d">>, TRUE)
RepoOther == Repo(<<"z","z","z">>, FALSE)
RepoOfPage(p) == Repo(<<"A","P","P","-", ToString(p)>>, FALSE)

\* What GET /orgs/{org}/repos?page=1 answers: a rejected fetch or a non-2xx
\* status (ok FALSE), or a page and the last page number of its Link header
\* (absent when there is one page only). The listing studied on its own
\* (utilCall names listRepos) may report one page more than within the whole
\* pipeline, so that several later pages are in flight together.
FirstPageAnswers ==
    { [ok |-> FALSE, repos |-> << >>, lastPage |-> None] }
    \cup { [ok |-> TRUE, repos |-> r, lastPage |-> None] :
             r \in { << >>, <<RepoOther, RepoCd>>, <<RepoCd, RepoSvc, RepoOld>> } }
    \cup { [ok |-> TRUE, repos |-> r, lastPage |-> Some(n)] :
             r \in { <<RepoOther, RepoCd>>, <<RepoCd, RepoSvc, RepoOld>> },
             n \in 2..(IF utilCall.fn = "listRepos" THEN MaxPage + 1 ELSE MaxPage) }
\* What a later page answers.
PageAnswers(p) ==
    { [ok |-> FALSE, repos |-> << >>], [ok |-> TRUE, repos |-> <<RepoOfPage(p)>>] }

\* GithubBranch: name. What the branch listing of a repository answers.
Branch(name) == [name |-> name]
BranchMain == Branch(<<"m","a","i","n">>)
BranchAB1 == Branch(<<"f","/","A","B","-","1","-","x">>)
BranchAb2 == Branch(<<"a","b","_","2">>)
BranchAB12 == Branch(<<"f","/","A","B","1","2">>)
BranchesAnswers ==
    { [ok |-> FALSE, branches |-> << >>],
      [ok |-> TRUE, branches |-> <<BranchMain, BranchAB12>>],
      [ok |-> TRUE, branches |-> <<BranchAB1, BranchAb2>>] }

\* WorkflowRun: id. What GET .../actions/runs?status=completed&per_page=1 answers.
RunsAnswers ==
    { [ok |-> FALSE, runs |-> << >>],
      [ok |-> TRUE, runs |-> << >>],
      [ok |-> TRUE, runs |-> <<[id |-> 42]>>] }

\* Log archives.
Entry(name, dir, content) ==
    [entryName |-> name, isDirectory |-> dir, content |-> content, unreadable |-> FALSE]
UnreadableEntry(name) ==
    [entryName |-> name, isDirectory |-> FALSE, content |-> << >>, unreadable |-> TRUE]
NameBuild == <<"B","u","i","l","d",".","t","x","t">>
NameDeploy ==
    <<"2","_","D","e","p","l","o","y"," ","T","r","i","g","g","e","r"," ","S","t","a","g","e",
      ".","t","x","t">>
LogNoMarker == <<"o","k">>
LogNoBrace == <<"P","a","y","l","o","a","d",":"," ","-">>
LogUnbalanced == <<"P","a","y","l","o","a","d",":"," ","{","\"","a","\"",":","1">>
LogPayload ==
    <<"x"," ","P","A","Y","L","O","A","D",":"," ","{","\"","a","\"",":","1",",",
      "\"","b","\"",":","{","\"","c","\"",":","2","}","}"," ","y">>
Zip(entries) == [malformed |-> FALSE, entries |-> entries]
ZipOf(log) == Zip(<<Entry(NameBuild, FALSE, LogNoMarker), Entry(NameDeploy, FALSE, log)>>)
ZipMalformed == [malformed |-> TRUE, entries |-> << >>]
ZipNoDeployLog ==
    Zip(<<Entry(NameBuild, FALSE, LogPayload), Entry(NameDeploy, TRUE, << >>)>>)
\* What GET .../actions/runs/{id}/logs answers: a failure or an archive. The
\* logDownload work does not read the content of the log it locates; the
\* payloadExtraction work does.
Download1Answers ==
    { [ok |-> FALSE, zip |-> Zip(<< >>)] }
    \cup { [ok |-> TRUE, zip |-> z] : z \in {ZipMalformed, ZipNoDeployLog, ZipOf(LogPayload)} }
Download2Answers ==
    Download1Answers
    \cup { [ok |-> TRUE, zip |-> ZipOf(log)] : log \in {LogNoMarker, LogNoBrace, LogUnbalanced} }

(***************************************************************************)
(* Collaborator functions, as functions of the remote answer               *)
(***************************************************************************)
\* getFirstUnreleasedVersion (jira/lib/versions.ts)
GetFirstUnreleasedVersion(answer, projectKey) ==
    IF ~answer.ok
    THEN BuildError(Lit("Failed to resolve unreleased version for ") \o Txt(projectKey)
                    \o Lit(": HTTP error"), None)
    ELSE LET unreleased == SelectSeq(answer.versions, LAMBDA v : ~v.released /\ ~v.archived)
         IN IF Len(unreleased) > 0
            THEN BuildResponse(Some(unreleased[1]),
                    Lit("First unreleased version for ") \o Txt(projectKey) \o Lit(": ")
                    \o Lit(unreleased[1].name))
            ELSE BuildResponse(None,
                    Lit("No unreleased versions found for ") \o Txt(projectKey) \o Lit("."))

\* searchIssues (jira/lib/issues)
SearchIssues(answer) ==
    IF ~answer.ok
    THEN BuildError(Lit("Failed to search issues: HTTP error"), [issues |-> << >>, total |-> 0])
    ELSE BuildResponse([issues |-> answer.issues, total |-> Len(answer.issues)],
                       Lit("Found ") \o Num(Len(answer.issues)) \o Lit(" issue(s) matching JQL."))

\* bulkGetIssues (jira/lib/issues), for a non-empty key list
BulkGetIssues(answer) ==
    IF ~answer.ok
    THEN BuildError(Lit("Failed to bulk fetch issues: HTTP error"), << >>)
    ELSE BuildResponse(answer.issues,
                       Lit("Retrieved ") \o Num(Len(answer.issues)) \o Lit(" issue(s)."))

\* listRepos (github/lib/repos.ts): the filters applied to the fetched repositories.
FilterRepos(allRepos, appId, type, status) ==
    LET byApp == IF Len(appId) > 0
                 THEN SelectSeq(allRepos,
                        LAMBDA r : StartsWith(ToLowerCase(r.name), ToLowerCase(appId)))
                 ELSE allRepos
        isCd(r) == EndsWith(ToLowerCase(r.name), <<"-","c","d">>)
        byType == IF type = "code" THEN SelectSeq(byApp, LAMBDA r : ~isCd(r))
                  ELSE SelectSeq(byApp, isCd)
    IN IF status = "active" THEN SelectSeq(byType, LAMBDA r : ~r.archived)
       ELSE SelectSeq(byType, LAMBDA r : r.archived)

ListReposOk(allRepos, appId, type, status) ==
    LET filtered == FilterRepos(allRepos, appId, type, status)
    IN BuildResponse(filtered, Lit("Found ") \o Num(Len(filtered)) \o Lit(" repo(s)."))
ListReposFailed ==
    BuildError(Lit("Failed to list repos: HTTP error"), << >>)

\* listBranches (github/lib/branches.ts); the catalogue's listings fit one page.
ListBranches(answer, repo) ==
    IF ~answer.ok
    THEN BuildError(Lit("Failed to list branches for ") \o Txt(repo) \o Lit(": HTTP error"),
                    << >>)
    ELSE BuildResponse(answer.branches,
                       Lit("Found ") \o Num(Len(answer.branches)) \o Lit(" branch(es)."))

\* listWorkflowRuns (github/lib/actions.ts)
ListWorkflowRuns(answer, repo) ==
    IF ~answer.ok
    THEN BuildError(Lit("Failed to list workflow runs for ") \o Txt(repo) \o Lit(": HTTP error"),
                    [runs |-> << >>, total |-> 0])
    ELSE BuildResponse([runs |-> answer.runs, total |-> Len(answer.runs)],
                       Lit("Found ") \o Num(Len(answer.runs)) \o Lit(" workflow run(s)."))

(***************************************************************************)
(* Report assembly (buildFinalReport)                                      *)
(***************************************************************************)
Slots == <<"fixVersionResolution", "issueSearch", "parentFeatures", "branchDiscovery",
           "logDownload", "payloadExtraction">>
SlotSet == Range(Slots)
SlotIndex(slot) == CHOOSE i \in 1..Len(Slots) : Slots[i] = slot

\* Six slots initialised with pendingStep() instead.
InitialStepsPending == [slot \in SlotSet |-> PendingStep]

\* The six slots as the invocation initialises them.
InitialSteps == [slot \in SlotSet |-> SkipStep]

\* issue.fields.parent?.key when truthy
ParentKey(issue) ==
    IF IsSome(issue.parent) /\ Len(Get(issue.parent)) > 0 THEN issue.parent ELSE None

\* A classification in which the failure of any step is fatal.
OverallStatusAnyFailureFatal(st) ==
    IF \E slot \in SlotSet : st[slot].status = "failed" THEN "failed"
    ELSE IF \E slot \in SlotSet \ {"fixVersionResolution"} : st[slot].status = "skipped"
    THEN "partial"
    ELSE "complete"

\* A classification that does not look at the skipped slots.
OverallStatusIgnoringSkipped(st) ==
    IF st["fixVersionResolution"].status = "failed" \/ st["issueSearch"].status = "failed"
    THEN "failed"
    ELSE IF \E slot \in SlotSet : st[slot].status = "failed"
    THEN "partial"
    ELSE "complete"

OverallStatus(st) ==
    LET failedCount == Cardinality({slot \in SlotSet : st[slot].status = "failed"})
    IN IF st["fixVersionResolution"].status = "failed" \/ st["issueSearch"].status = "failed"
       THEN "failed"
       ELSE IF \/ failedCount > 0
               \/ \E slot \in SlotSet \ {"fixVersionResolution"} : st[slot].status = "skipped"
       THEN "partial"
       ELSE "complete"

\* A grouping that starts a new list at every issue: a group keeps only the
\* last issue of its key.
IssuesByFeatureOverwritten(st, iss) ==
    LET parented == SelectSeq(iss, LAMBDA i : IsSome(ParentKey(i)))
        keys == Distinct([i \in 1..Len(parented) |-> Get(ParentKey(parented[i]))])
        of(k) == SelectSeq(iss, LAMBDA i : ParentKey(i) = Some(k))
    IN [g \in 1..Len(keys) |->
          [featureKey |-> keys[g],
           featureSummary |-> <<"(summary unavailable)">>,
           featureStatus |-> <<"unknown">>,
           issues |-> <<of(keys[g])[Len(of(keys[g]))]>>]]

\* The grouping of the issues by parent key, and the unparented ones.
IssuesByFeature(st, iss) ==
    LET features == IF st["parentFeatures"].status = "success"
                    THEN Get(st["parentFeatures"].data).features ELSE << >>
        \* new Map(features.map(f => [f.key, f])): the last feature of a key wins
        hasFeature(k) == \E i \in 1..Len(features) : features[i].key = k
        featureOf(k) == features[CHOOSE i \in 1..Len(features) :
                                    /\ features[i].key = k
                                    /\ \A j \in (i + 1)..Len(features) : features[j].key # k]
        parented == SelectSeq(iss, LAMBDA i : IsSome(ParentKey(i)))
        keys == Distinct([i \in 1..Len(parented) |-> Get(ParentKey(parented[i]))])
    IN [g \in 1..Len(keys) |->
          [featureKey |-> keys[g],
           featureSummary |-> IF hasFeature(keys[g]) THEN featureOf(keys[g]).summary
                              ELSE <<"(summary unavailable)">>,
           featureStatus |-> IF hasFeature(keys[g]) THEN featureOf(keys[g]).status
                             ELSE <<"unknown">>,
           issues |-> SelectSeq(iss, LAMBDA i : ParentKey(i) = Some(keys[g]))]]

\* The optional report block.
ReportBlock(st, ver, projectKey, iss) ==
    IF Len(iss) > 0
    THEN LET byFeature == IssuesByFeature(st, iss)
             branchOk == st["branchDiscovery"].status = "success"
             payloadOk == st["payloadExtraction"].status = "success"
         IN Some([summary |->
                     Lit("Fix version ") \o Lit(ver) \o Lit(" (") \o Txt(projectKey)
                     \o Lit("): ") \o Num(Len(iss)) \o Lit(" issue(s) across ")
                     \o Num(Len(byFeature)) \o Lit(" parent feature(s). Branch matches: ")
                     \o (IF branchOk THEN Num(Len(Get(st["branchDiscovery"].data).matches))
                         ELSE Lit("n/a"))
                     \o Lit(". Deployment payload: ")
                     \o (IF payloadOk THEN Lit("extracted") ELSE Lit("unavailable"))
                     \o Lit("."),
                  issuesByFeature |-> byFeature,
                  unparentedIssues |-> SelectSeq(iss, LAMBDA i : ~IsSome(ParentKey(i))),
                  branchMatches |-> IF branchOk THEN Get(st["branchDiscovery"].data).matches
                                    ELSE << >>,
                  deployPayload |-> IF payloadOk THEN Get(st["payloadExtraction"].data).payload
                                    ELSE JObject(<< >>)])
    ELSE None

\* An envelope that reports a failed run as an error.
BuildFinalReportFlaggingFailure(st, ver, projectKey, iss) ==
    LET overallStatus == OverallStatus(st)
        report == ReportBlock(st, ver, projectKey, iss)
        result == [fixVersion |-> ver, projectKey |-> projectKey,
                   overallStatus |-> overallStatus, steps |-> st, report |-> report]
        summary == IF IsSome(report) THEN Get(report).summary
                   ELSE Lit("Release summary for ") \o Lit(ver) \o Lit(" (")
                        \o Lit(overallStatus) \o Lit(").")
    IN IF overallStatus = "failed" THEN BuildError(summary, result)
       ELSE BuildResponse(result, summary)

BuildFinalReport(st, ver, projectKey, iss) ==
    LET overallStatus == OverallStatus(st)
        report == ReportBlock(st, ver, projectKey, iss)
        result == [fixVersion |-> ver, projectKey |-> projectKey,
                   overallStatus |-> overallStatus, steps |-> st, report |-> report]
    IN BuildResponse(result,
                     IF IsSome(report) THEN Get(report).summary
                     ELSE Lit("Release summary for ") \o Lit(ver) \o Lit(" (")
                          \o Lit(overallStatus) \o Lit(")."))

(***************************************************************************)
(* runAppReleaseSummary: one invocation, one action per continuation       *)
(***************************************************************************)
Inputs ==
    [fixVersion : {None, Some("26.01.1")},
     projectKey : {None},
     forceLogRefresh : BOOLEAN,
     workflowRunId : {None, Some(7)}]
    \cup { [fixVersion |-> Some(""), projectKey |-> Some(<<"O","V","R">>),
            forceLogRefresh |-> FALSE, workflowRunId |-> None] }

\* input.projectKey ?? jiraConfig.projectKey
ProjectKey == IF IsSome(input.projectKey) THEN Get(input.projectKey) ELSE ConfigProjectKey

NoLocals ==
    [firstPage |-> << >>, pages |-> << >>, repos |-> << >>, branchResults |-> << >>,
     targetRepo |-> << >>, runId |-> 0]

\* A request: the step that issues it, the operation, the repository or
\* project it names, its number (page, page size, index or run id) and its
\* status restriction ("" when it has none).
Call(step, api, repo, num) ==
    [step |-> step, api |-> api, repo |-> repo, num |-> num, status |-> ""]

\* The calls in flight: issued and not yet answered.
InFlight == {i \in 1..Len(calls) : ~IsSome(answers[i])}

\* The invocation is suspended at the await p, with a call to be answered.
Awaiting(p) == pc = p /\ InFlight # {}

\* What a continuation does to the network: the call c it resumes on (0 when it
\* resumes on none) has the answer a, and it issues newCalls, in order.
Net(c, a, newCalls) ==
    /\ calls' = calls \o newCalls
    /\ answers' = (IF c = 0 THEN answers ELSE [answers EXCEPT ![c] = Some(a)])
                  \o [i \in 1..Len(newCalls) |-> None]

\* steps.<slot> = <result>
Assign(slot, result) ==
    /\ steps' = [steps EXCEPT ![slot] = result]
    /\ assigned' = Append(assigned, slot)

\* An invocation that ends without handing the report back.
ReturnWithoutReport(ver, iss) ==
    /\ pc' = "done"
    /\ UNCHANGED response

\* return buildFinalReport(steps, resolvedVersion, projectKey, iss)
Return(ver, iss) ==
    /\ response' = Some(BuildFinalReport(steps', ver, ProjectKey, iss))
    /\ pc' = "done"

InitPipeline ==
    /\ pc = "step1"
    /\ input \in Inputs
    /\ steps = InitialSteps
    /\ assigned = << >>
    /\ calls = << >>
    /\ answers = << >>
    /\ resolvedVersion = ""
    /\ issues = << >>
    /\ locals = NoLocals
    /\ response = None

\* ---- Step 1: resolve the fix version --------------------------------------
\* A continuation without the `if (status === "failed") return ...` of step 1.
FinishStep1WithoutAbort(work) ==
    LET r == Get(RunStep(work, 0).result)
    IN /\ Assign("fixVersionResolution", r)
       /\ resolvedVersion' = IF r.status = "success" THEN Get(r.data).version
                             ELSE IF IsSome(input.fixVersion) THEN Get(input.fixVersion)
                             ELSE ""
       /\ pc' = "step2"
       /\ UNCHANGED response

\* The continuation after `steps.fixVersionResolution = await runStep(...)`.
FinishStep1(work) ==
    LET r == Get(RunStep(work, 0).result)
    IN /\ Assign("fixVersionResolution", r)
       /\ resolvedVersion' = IF r.status = "success" THEN Get(r.data).version
                             ELSE IF IsSome(input.fixVersion) THEN Get(input.fixVersion)
                             ELSE ""
       /\ IF r.status = "failed"
          THEN Return(resolvedVersion', << >>)
          ELSE pc' = "step2" /\ UNCHANGED response

BeginStep1 ==
    /\ pc = "step1"
    /\ IF IsSome(input.fixVersion) /\ Get(input.fixVersion) # ""
       THEN /\ FinishStep1(Returns([version |-> Get(input.fixVersion), released |-> FALSE]))
            /\ UNCHANGED <<calls, answers>>
       ELSE /\ Net(0, None, <<Call("fixVersionResolution", "getFirstUnreleasedVersion",
                                   ProjectKey, 0)>>)
            /\ pc' = "awaitVersions"
            /\ UNCHANGED <<steps, assigned, resolvedVersion, response>>
    /\ UNCHANGED <<input, issues, locals>>
    /\ UNCHANGED harnessVars

VersionsAnswered ==
    /\ Awaiting("awaitVersions")
    /\ \E answer \in VersionsAnswers :
         LET result == GetFirstUnreleasedVersion(answer, ProjectKey)
         IN /\ FinishStep1(
                 IF ~result.success \/ ~IsSome(result.data)
                 THEN ThrowsError(Lit("Could not resolve an unreleased fix version for project ")
                                  \o Txt(ProjectKey) \o Lit(". ") \o result.summary)
                 ELSE Returns([version |-> Get(result.data).name,
                               released |-> Get(result.data).released]))
            /\ Net(Len(calls), answer, << >>)
    /\ UNCHANGED <<input, issues, locals>>
    /\ UNCHANGED harnessVars

\* ---- Step 2: fetch the issues of the fix version --------------------------
\* A continuation without the `if (status === "failed") return ...` of step 2.
FinishStep2WithoutAbort(work) ==
    LET r == Get(RunStep(work, 0).result)
    IN /\ Assign("issueSearch", r)
       /\ issues' = IF r.status = "failed" THEN << >> ELSE Get(r.data).issues
       /\ pc' = "step3"
       /\ UNCHANGED response

\* The continuation after `steps.issueSearch = await runStep(...)`.
FinishStep2(work) ==
    LET r == Get(RunStep(work, 0).result)
    IN /\ Assign("issueSearch", r)
       /\ IF r.status = "failed"
          THEN Return(resolvedVersion, << >>) /\ UNCHANGED issues
          ELSE /\ issues' = Get(r.data).issues
               /\ pc' = "step3"
               /\ UNCHANGED response

BeginStep2 ==
    /\ pc = "step2"
    /\ Net(0, None, <<Call("issueSearch", "searchIssues", ProjectKey, 200)>>)
    /\ pc' = "awaitSearch"
    /\ UNCHANGED <<input, steps, assigned, resolvedVersion, issues, locals, response>>
    /\ UNCHANGED harnessVars

SearchAnswered ==
    /\ Awaiting("awaitSearch")
    /\ \E answer \in SearchAnswers :
         LET result == SearchIssues(answer)
         IN /\ FinishStep2(IF ~result.success THEN ThrowsError(result.summary)
                           ELSE Returns([issues |-> result.data.issues,
                                         total |-> result.data.total]))
            /\ Net(Len(calls), answer, << >>)
    /\ UNCHANGED <<input, resolvedVersion, locals>>
    /\ UNCHANGED harnessVars

\* ---- Step 3: map parent features ------------------------------------------
\* Parent keys collected without the Set: a key appears once per issue.
UniqueParentKeysWithRepeats(iss) ==
    LET parented == SelectSeq(iss, LAMBDA i : IsSome(ParentKey(i)))
    IN [i \in 1..Len(parented) |-> Get(ParentKey(parented[i]))]

UniqueParentKeys(iss) ==
    LET parented == SelectSeq(iss, LAMBDA i : IsSome(ParentKey(i)))
    IN Distinct([i \in 1..Len(parented) |-> Get(ParentKey(parented[i]))])

\* A continuation that goes on to step 4 without recording the result.
FinishStep3Unrecorded(work) ==
    /\ pc' = "step4"
    /\ UNCHANGED <<steps, assigned>>

\* The continuation after `steps.parentFeatures = await runStep(...)`.
FinishStep3(work) ==
    /\ Assign("parentFeatures", Get(RunStep(work, 0).result))
    /\ pc' = "step4"

BeginStep3 ==
    /\ pc = "step3"
    /\ LET parentKeys == UniqueParentKeys(issues)
       IN IF Len(parentKeys) = 0
          THEN /\ FinishStep3(Returns([features |-> << >>, uniqueParentKeys |-> << >>]))
               /\ UNCHANGED <<calls, answers>>
          ELSE /\ Net(0, None, <<Call("parentFeatures", "bulkGetIssues", << >>,
                                      Len(parentKeys))>>)
               /\ pc' = "awaitBulk"
               /\ UNCHANGED <<steps, assigned>>
    /\ UNCHANGED <<input, resolvedVersion, issues, locals, response>>
    /\ UNCHANGED harnessVars

BulkAnswered ==
    /\ Awaiting("awaitBulk")
    /\ LET parentKeys == UniqueParentKeys(issues)
       IN \E answer \in BulkAnswers(parentKeys) :
            LET result == BulkGetIssues(answer)
            IN /\ FinishStep3(IF ~result.success THEN ThrowsError(result.summary)
                              ELSE Returns([features |-> result.data,
                                            uniqueParentKeys |-> parentKeys]))
               /\ Net(Len(calls), answer, << >>)
    /\ UNCHANGED <<input, resolvedVersion, issues, locals, response>>
    /\ UNCHANGED harnessVars

\* ---- Step 4: branch discovery ---------------------------------------------
\* The continuation after `steps.branchDiscovery = await runStep(...)`; the
\* locals of the work are gone.
FinishStep4(work) ==
    /\ Assign("branchDiscovery", Get(RunStep(work, 0).result))
    /\ locals' = NoLocals
    /\ pc' = "step5"

BeginStep4 ==
    /\ pc = "step4"
    /\ Net(0, None, <<Call("branchDiscovery", "listRepos.page", << >>, 1)>>)
    /\ pc' = "awaitFirstPage"
    /\ UNCHANGED <<input, steps, assigned, resolvedVersion, issues, locals, response>>
    /\ UNCHANGED harnessVars

\* listRepos, resumed by the answer a to call c, has all its pages: it filters
\* and returns, and the work goes on to list the branches of every repository,
\* all listings being issued before any is answered.
ReposListed(c, a, allRepos) ==
    LET reposResult == ListReposOk(allRepos, AppId, "code", "active")
        repos == reposResult.data
    IN IF Len(repos) = 0
       THEN /\ FinishStep4(Returns([matches |-> FindBranchesMatchingJiraIds(<< >>,
                                                 [i \in 1..Len(issues) |-> issues[i].key]),
                                    repos |-> << >>, searchedRepos |-> 0]))
            /\ Net(c, a, << >>)
       ELSE /\ Net(c, a, [i \in 1..Len(repos) |->
                            Call("branchDiscovery", "listBranches", repos[i].name, i)])
            /\ locals' = [NoLocals EXCEPT !.repos = repos,
                                          !.branchResults = [i \in 1..Len(repos) |-> None]]
            /\ pc' = "awaitBranches"
            /\ UNCHANGED <<steps, assigned>>

FirstPageAnswered ==
    /\ Awaiting("awaitFirstPage")
    /\ \E answer \in FirstPageAnswers :
         LET lastPage == IF IsSome(answer.lastPage) THEN Get(answer.lastPage) ELSE 1
         IN IF ~answer.ok
            THEN /\ FinishStep4(ThrowsError(ListReposFailed.summary))
                 /\ Net(Len(calls), answer, << >>)
            ELSE IF lastPage > 1
            THEN /\ Net(Len(calls), answer,
                        [i \in 1..(lastPage - 1) |->
                           Call("branchDiscovery", "listRepos.page", << >>, i + 1)])
                 /\ locals' = [locals EXCEPT !.firstPage = answer.repos,
                                             !.pages = [i \in 1..(lastPage - 1) |-> None]]
                 /\ pc' = "awaitPages"
                 /\ UNCHANGED <<steps, assigned>>
            ELSE ReposListed(Len(calls), answer, answer.repos)
    /\ UNCHANGED <<input, resolvedVersion, issues, response>>
    /\ UNCHANGED harnessVars

\* A join that keeps the pages in the order in which they were answered.
PageAnsweredInCompletionOrder ==
    /\ Awaiting("awaitPages")
    /\ \E c \in InFlight : \E answer \in PageAnswers(calls[c].num) :
         LET page == IF answer.ok THEN answer.repos ELSE << >>
             slot == CHOOSE i \in 1..Len(locals.pages) :
                        /\ ~IsSome(locals.pages[i])
                        /\ \A j \in 1..(i - 1) : IsSome(locals.pages[j])
             pages == [locals.pages EXCEPT ![slot] = Some(page)]
         IN IF InFlight = {c}
            THEN ReposListed(c, answer,
                             locals.firstPage \o Flat([i \in 1..Len(pages) |-> Get(pages[i])]))
            ELSE /\ Net(c, answer, << >>)
                 /\ locals' = [locals EXCEPT !.pages = pages]
                 /\ UNCHANGED <<pc, steps, assigned>>
    /\ UNCHANGED <<input, resolvedVersion, issues, response>>
    /\ UNCHANGED harnessVars

\* One of the later pages is answered; a failed page counts as an empty one.
\* The last answer resumes listRepos.
PageAnswered ==
    /\ Awaiting("awaitPages")
    /\ \E c \in InFlight : \E answer \in PageAnswers(calls[c].num) :
         LET page == IF answer.ok THEN answer.repos ELSE << >>
             pages == [locals.pages EXCEPT ![calls[c].num - 1] = Some(page)]
         IN IF InFlight = {c}
            THEN ReposListed(c, answer,
                             locals.firstPage \o Flat([i \in 1..Len(pages) |-> Get(pages[i])]))
            ELSE /\ Net(c, answer, << >>)
                 /\ locals' = [locals EXCEPT !.pages = pages]
                 /\ UNCHANGED <<pc, steps, assigned>>
    /\ UNCHANGED <<input, resolvedVersion, issues, response>>
    /\ UNCHANGED harnessVars

\* A work that gives up on the first listing that failed.
BranchDiscoveryFailFast(repos, results, issueKeys) ==
    IF \E k \in 1..Len(results) : ~results[k].success
    THEN ThrowsError(results[CHOOSE k \in 1..Len(results) : ~results[k].success].summary)
    ELSE Returns([matches |-> FindBranchesMatchingJiraIds(
                                Flat([k \in 1..Len(results) |->
                                        [b \in 1..Len(results[k].data) |->
                                           [name |-> results[k].data[b].name,
                                            repo |-> repos[k].name]]]), issueKeys),
                  repos |-> [k \in 1..Len(repos) |-> repos[k].name],
                  searchedRepos |-> Len(repos)])

\* What the work returns once listBranches has returned results[k] for every
\* repos[k]: a failed listing counts as no branch; flatten, match, return.
BranchDiscoveryWork(repos, results, issueKeys) ==
    LET tagged(k) == IF ~results[k].success THEN << >>
                     ELSE [b \in 1..Len(results[k].data) |->
                             [name |-> results[k].data[b].name, repo |-> repos[k].name]]
        allBranches == Flat([k \in 1..Len(results) |-> tagged(k)])
    IN Returns([matches |-> FindBranchesMatchingJiraIds(allBranches, issueKeys),
                repos |-> [k \in 1..Len(repos) |-> repos[k].name],
                searchedRepos |-> Len(repos)])

\* Listings whose results are kept in the order in which they were answered.
BranchesAnsweredInArrivalOrder ==
    /\ Awaiting("awaitBranches")
    /\ \E c \in InFlight : \E answer \in BranchesAnswers :
         LET i == CHOOSE k \in 1..Len(locals.branchResults) :
                     /\ ~IsSome(locals.branchResults[k])
                     /\ \A j \in 1..(k - 1) : IsSome(locals.branchResults[j])
             result == ListBranches(answer, locals.repos[calls[c].num].name)
             branchResults == [locals.branchResults EXCEPT ![i] = Some(result)]
         IN /\ Net(c, answer, << >>)
            /\ IF InFlight = {c}
               THEN FinishStep4(BranchDiscoveryWork(
                        locals.repos,
                        [k \in 1..Len(branchResults) |-> Get(branchResults[k])],
                        [k \in 1..Len(issues) |-> issues[k].key]))
               ELSE /\ locals' = [locals EXCEPT !.branchResults = branchResults]
                    /\ UNCHANGED <<pc, steps, assigned>>
    /\ UNCHANGED <<input, resolvedVersion, issues, response>>
    /\ UNCHANGED harnessVars

\* One branch listing is answered. The last answer resumes the work.
BranchesAnswered ==
    /\ Awaiting("awaitBranches")
    /\ \E c \in InFlight : \E answer \in BranchesAnswers :
         LET i == calls[c].num
             result == ListBranches(answer, locals.repos[i].name)
             branchResults == [locals.branchResults EXCEPT ![i] = Some(result)]
         IN /\ Net(c, answer, << >>)
            /\ IF InFlight = {c}
               THEN FinishStep4(BranchDiscoveryWork(
                        locals.repos,
                        [k \in 1..Len(branchResults) |-> Get(branchResults[k])],
                        [k \in 1..Len(issues) |-> issues[k].key]))
               ELSE /\ locals' = [locals EXCEPT !.branchResults = branchResults]
                    /\ UNCHANGED <<pc, steps, assigned>>
    /\ UNCHANGED <<input, resolvedVersion, issues, response>>
    /\ UNCHANGED harnessVars

\* ---- Step 5: log download -------------------------------------------------
\* A selection whose fallback is the last repository of the listing.
MatchedReposLastListed(st) ==
    IF st["branchDiscovery"].status = "success"
       /\ Len(Get(st["branchDiscovery"].data).matches) > 0
    THEN LET matches == Get(st["branchDiscovery"].data).matches
         IN Distinct([i \in 1..Len(matches) |-> matches[i].repo])
    ELSE IF st["branchDiscovery"].status = "success"
    THEN LET repos == Get(st["branchDiscovery"].data).repos
         IN IF Len(repos) = 0 THEN << >> ELSE <<repos[Len(repos)]>>
    ELSE << >>

MatchedRepos(st) ==
    IF st["branchDiscovery"].status = "success"
       /\ Len(Get(st["branchDiscovery"].data).matches) > 0
    THEN LET matches == Get(st["branchDiscovery"].data).matches
         IN Distinct([i \in 1..Len(matches) |-> matches[i].repo])
    ELSE IF st["branchDiscovery"].status = "success"
    THEN SubSeq(Get(st["branchDiscovery"].data).repos, 1,
                IF Len(Get(st["branchDiscovery"].data).repos) >= 1 THEN 1 ELSE 0)
    ELSE << >>

\* matchedRepos[0], absent when there is none
TargetRepo(st) ==
    IF Len(MatchedRepos(st)) > 0 THEN Some(MatchedRepos(st)[1]) ELSE None

\* A no-target branch that skips the download and still runs the extraction,
\* whose work fails on reading the run id of a download that never ran.
SkipDownloadOnly ==
    /\ steps' = [steps EXCEPT
                   !["logDownload"] = SkipStep,
                   !["payloadExtraction"] =
                       Get(RunStep(ThrowsError(Lit("Cannot read properties of undefined")),
                                   0).result)]
    /\ assigned' = assigned \o <<"logDownload", "payloadExtraction">>

\* The no-target branch: steps.logDownload = skipStep();
\* steps.payloadExtraction = skipStep()
SkipDownloadAndExtraction ==
    /\ steps' = [steps EXCEPT !["logDownload"] = SkipStep, !["payloadExtraction"] = SkipStep]
    /\ assigned' = assigned \o <<"logDownload", "payloadExtraction">>

\* downloadRunLogs, extractLogsFromZip and findDeployTriggerStageLog as both
\* sub-steps chain them: the located log, or the message of the error thrown.
ReadDeployLog(answer, notFound) ==
    LET extracted == ExtractLogsFromZip(answer.zip, None)
        deployLog == FindDeployTriggerStageLog(extracted.data)
    IN IF ~answer.ok THEN [ok |-> FALSE, error |-> Lit("HTTP error downloading logs"),
                           entriesFound |-> 0, log |-> None]
       ELSE IF ~extracted.success
       THEN [ok |-> FALSE, error |-> extracted.summary, entriesFound |-> 0, log |-> None]
       ELSE IF ~IsSome(deployLog.data)
       THEN [ok |-> FALSE, error |-> notFound, entriesFound |-> 0, log |-> None]
       ELSE [ok |-> TRUE, error |-> << >>, entriesFound |-> Len(extracted.data),
             log |-> deployLog.data]

\* A continuation that starts the extraction whatever the download gave.
FinishStep5AlwaysExtracting(c, a, work) ==
    /\ Assign("logDownload", Get(RunStep(work, 0).result))
    /\ Net(c, a, <<Call("payloadExtraction", "downloadRunLogs",
                        Get(locals.targetRepo), locals.runId)>>)
    /\ pc' = "awaitDownload2"
    /\ locals' = locals
    /\ UNCHANGED response

\* The continuation after `steps.logDownload = await runStep(...)`, resumed by
\* the answer a to call c: a failed download skips the extraction and returns;
\* otherwise the payloadExtraction work starts and downloads the archive again.
FinishStep5(c, a, work) ==
    LET r == Get(RunStep(work, 0).result)
    IN IF r.status = "failed"
       THEN /\ steps' = [steps EXCEPT !["logDownload"] = r, !["payloadExtraction"] = SkipStep]
            /\ assigned' = assigned \o <<"logDownload", "payloadExtraction">>
            /\ Return(resolvedVersion, issues)
            /\ Net(c, a, << >>)
            /\ locals' = NoLocals
       ELSE /\ Assign("logDownload", r)
            /\ Net(c, a, <<Call("payloadExtraction", "downloadRunLogs",
                                Get(locals.targetRepo), Get(r.data).runId)>>)
            /\ pc' = "awaitDownload2"
            /\ locals' = [locals EXCEPT !.runId = 0]
            /\ UNCHANGED response

\* A resolution that ignores the force-refresh flag.
NeedsRunLookupIgnoringForce ==
    ~IsSome(input.workflowRunId) \/ Get(input.workflowRunId) = 0

\* if (!runId || input.forceLogRefresh)
NeedsRunLookup ==
    ~IsSome(input.workflowRunId) \/ Get(input.workflowRunId) = 0 \/ input.forceLogRefresh

BeginStep5 ==
    /\ pc = "step5"
    /\ LET targetRepo == TargetRepo(steps)
       IN IF ~IsSome(targetRepo) \/ Len(Get(targetRepo)) = 0
          THEN /\ SkipDownloadAndExtraction
               /\ Return(resolvedVersion, issues)
               /\ UNCHANGED <<calls, answers, locals>>
          ELSE IF NeedsRunLookup
          THEN /\ Net(0, None, <<[step |-> "logDownload", api |-> "listWorkflowRuns",
                                   repo |-> Get(targetRepo), num |-> 1,
                                   status |-> "completed"]>>)
               /\ locals' = [locals EXCEPT !.targetRepo = targetRepo]
               /\ pc' = "awaitRuns"
               /\ UNCHANGED <<steps, assigned, response>>
          ELSE /\ Net(0, None, <<Call("logDownload", "downloadRunLogs", Get(targetRepo),
                                      Get(input.workflowRunId))>>)
               /\ locals' = [locals EXCEPT !.targetRepo = targetRepo,
                                           !.runId = Get(input.workflowRunId)]
               /\ pc' = "awaitDownload1"
               /\ UNCHANGED <<steps, assigned, response>>
    /\ UNCHANGED <<input, resolvedVersion, issues>>
    /\ UNCHANGED harnessVars

RunsAnswered ==
    /\ Awaiting("awaitRuns")
    /\ \E answer \in RunsAnswers :
         LET runsResult == ListWorkflowRuns(answer, Get(locals.targetRepo))
         IN IF ~runsResult.success \/ Len(runsResult.data.runs) = 0
            THEN FinishStep5(Len(calls), answer,
                             ThrowsError(Lit("No completed workflow runs found for ")
                                         \o Txt(Get(locals.targetRepo)) \o Lit(".")))
            ELSE /\ Net(Len(calls), answer,
                        <<Call("logDownload", "downloadRunLogs", Get(locals.targetRepo),
                               runsResult.data.runs[1].id)>>)
                 /\ locals' = [locals EXCEPT !.runId = runsResult.data.runs[1].id]
                 /\ pc' = "awaitDownload1"
                 /\ UNCHANGED <<steps, assigned, response>>
    /\ UNCHANGED <<input, resolvedVersion, issues>>
    /\ UNCHANGED harnessVars

\* A download whose result records the run id the caller supplied, whatever
\* run was resolved and downloaded.
Download1AnsweredRecordingSuppliedId ==
    /\ Awaiting("awaitDownload1")
    /\ \E answer \in Download1Answers :
         LET read == ReadDeployLog(answer,
                        Lit("No 'Deploy Trigger Stage' log file found in the run's artifacts."))
         IN FinishStep5(Len(calls), answer,
                        IF ~read.ok THEN ThrowsError(read.error)
                        ELSE Returns([runId |-> IF IsSome(input.workflowRunId)
                                                THEN Get(input.workflowRunId)
                                                ELSE locals.runId,
                                      repo |-> Get(locals.targetRepo),
                                      entriesFound |-> read.entriesFound,
                                      deployTriggerFile |-> Get(read.log).fileName]))
    /\ UNCHANGED <<input, resolvedVersion, issues>>
    /\ UNCHANGED harnessVars

Download1Answered ==
    /\ Awaiting("awaitDownload1")
    /\ \E answer \in Download1Answers :
         LET read == ReadDeployLog(answer,
                        Lit("No 'Deploy Trigger Stage' log file found in the run's artifacts."))
         IN FinishStep5(Len(calls), answer,
                        IF ~read.ok THEN ThrowsError(read.error)
                        ELSE Returns([runId |-> locals.runId,
                                      repo |-> Get(locals.targetRepo),
                                      entriesFound |-> read.entriesFound,
                                      deployTriggerFile |-> Get(read.log).fileName]))
    /\ UNCHANGED <<input, resolvedVersion, issues>>
    /\ UNCHANGED harnessVars

\* ---- Step 5.1: payload extraction -----------------------------------------
\* content.slice(contentIdx, contentIdx + 500) with contentIdx the marker's index
RawMatchLength == 500
RawMatch(content) ==
    LET idx == SearchPayloadMarker(content)
    IN IF idx = 0 THEN << >>
       ELSE SubSeq(content, idx,
                   IF idx + RawMatchLength - 1 <= Len(content) THEN idx + RawMatchLength - 1
                   ELSE Len(content))

\* The continuation after `steps.payloadExtraction = await runStep(...)`.
FinishStep6(work) ==
    /\ Assign("payloadExtraction", Get(RunStep(work, 0).result))
    /\ Return(resolvedVersion, issues)
    /\ locals' = NoLocals

Download2Answered ==
    /\ Awaiting("awaitDownload2")
    /\ \E answer \in Download2Answers :
         LET read == ReadDeployLog(answer,
                        Lit("Deploy Trigger Stage log not found during payload extraction."))
             payloadResult == ExtractPayloadObject(Get(read.log).content)
         IN /\ FinishStep6(IF ~read.ok THEN ThrowsError(read.error)
                           ELSE IF ~payloadResult.success \/ ~IsSome(payloadResult.data)
                           THEN ThrowsError(payloadResult.summary)
                           ELSE Returns([payload |-> Get(payloadResult.data),
                                         rawMatch |-> RawMatch(Get(read.log).content)]))
            /\ Net(Len(calls), answer, << >>)
    /\ UNCHANGED <<input, resolvedVersion, issues>>
    /\ UNCHANGED harnessVars

(***************************************************************************)
(* runStep on an arbitrary unit of work                                    *)
(***************************************************************************)
Works ==
    {Returns(v) : v \in {"a", "b", ""}}
    \cup {ThrowsError(Lit(m)) : m \in {"boom", ""}}
    \cup {ThrowsValue(x) : x \in {JsString("oops"), JsString(""), JsUndefined,
                                   JsPlainObject("inner"), JsNullProtoObject}}

InitHarness ==
    /\ rsCalls = 0
    /\ rsWork = None
    /\ rsOutcome = None
    /\ invocations = << >>
    /\ requests = << >>

\* No utility call is being made.
NoUtilCall ==
    /\ utilCall = [fn |-> "none"]
    /\ utilResult = << >>

CallRunStep ==
    /\ rsCalls < MaxCalls
    /\ \E work \in Works : \E elapsed \in 0..MaxElapsed :
         /\ rsWork' = Some(work)
         /\ rsOutcome' = Some(RunStep(work, elapsed))
    /\ rsCalls' = rsCalls + 1
    /\ UNCHANGED pipelineVars
    /\ UNCHANGED utilVars
    /\ UNCHANGED <<invocations, requests>>

(***************************************************************************)
(* The pure functions of the libraries, each called once on an input       *)
(***************************************************************************)
MaxBranches == 2     \* longest branch list given to the matcher
MaxIds == 2          \* longest identifier list given to the matcher
MaxEntries == 3      \* longest list of log entries and of archive entries
MaxInvocations == 3  \* most invocations of the page tools in one run of the server

\* No invocation of the pipeline takes part: it stays in one initial state.
PipelineIdle ==
    /\ InitPipeline
    /\ input = [fixVersion |-> None, projectKey |-> None, forceLogRefresh |-> FALSE,
                workflowRunId |-> None]

KeyPROJ123 == <<"P","R","O","J","-","1","2","3">>

\* The matcher on one branch (a prefix, a core and a suffix) and one
\* identifier, and on short lists of branches and identifiers.
MatcherCalls ==
    LET SeqsUpTo(S, n) == UNION {[1..k -> S] : k \in 0..n}
        NamePrefixes ==
            {<< >>, <<"f">>, <<"f","/">>, <<"x","-">>, <<"_">>,
             <<"f","e","a","t","u","r","e","/">>}
        NameCores ==
            {<<"A","B","-","1">>, <<"a","b","_","1">>, <<"a","B","1">>,
             <<"A","B","-","-","1">>, <<"A","B","/","1">>, <<"A","B"," ","1">>,
             <<"B","-","1">>, <<"A","B","-","1","2">>,
             <<"P","R","O","J","-","1","2","3">>, <<"p","r","o","j","_","1","2","3">>,
             <<"P","R","O","J","1","2","3">>, <<"P","R","O","J","1","2","3","4">>}
        NameSuffixes ==
            {<< >>, <<"-","l","o","g","i","n">>, <<"_","l","o","g","i","n">>, <<"/">>,
             <<"2">>, <<"x">>}
        BranchNames ==
            {p \o c \o s : p \in NamePrefixes, c \in NameCores, s \in NameSuffixes}
        ListedBranches ==
            { [name |-> <<"f","/","A","B","-","1","-","x">>, repo |-> <<"r","1">>],
              [name |-> <<"a","b","_","2">>, repo |-> <<"r","1">>],
              [name |-> <<"A","B","-","1","_","A","B","-","2">>, repo |-> <<"r","2">>],
              [name |-> <<"m","a","i","n">>, repo |-> <<"r","2">>] }
    IN { [fn |-> "findBranchesMatchingJiraIds",
          branches |-> <<[name |-> n, repo |-> <<"r">>]>>, jiraIds |-> <<id>>] :
            n \in BranchNames, id \in {KeyAB1, KeyPROJ123} }
       \cup { [fn |-> "findBranchesMatchingJiraIds", branches |-> bs, jiraIds |-> ids] :
                bs \in SeqsUpTo(ListedBranches, MaxBranches),
                ids \in SeqsUpTo({KeyAB1, KeyAB2}, MaxIds) }

\* The payload extractor on log texts: what precedes the marker, the marker,
\* what separates it from the object, the object, and what follows.
PayloadCalls ==
    LET Before ==
            {<< >>, <<"x"," ">>, <<"{","}"," ">>, <<"P","a","y","l","o","a","d"," ">>,
             <<"p","a","y","l","o","a","d",":"," ">>}
        Markers ==
            {<<"P","a","y","l","o","a","d",":">>, <<"P","A","Y","L","O","A","D"," ",":">>,
             <<"p","a","y","l","o","a","d","\n","\t",":">>, <<"P","a","y","l","o","a","d">>,
             <<"P","a","y","l","o","a",":">>, <<"P","a","y"," ","l","o","a","d",":">>}
        Gaps == {<< >>, <<" ">>, <<" ","-"," ">>}
        Objects ==
            {<< >>, <<"{","}">>, <<"{","\"","a","\"",":","1","}">>,
             <<"{","\"","a","\"",":","{","\"","b","\"",":","2","}","}">>,
             <<"{","\"","a","\"",":","1">>, <<"{","a","}">>,
             <<"{","\"","a","\"",":","\"","}","\"","}">>, <<"}","{","}">>,
             <<"{","{","}">>, <<"{","\"","a","\"",":","1","}","}">>,
             <<"{","\"","a","\"",":","\"","{","\"","}">>}
        After == {<< >>, <<" ","y">>, <<" ","{","}">>, <<"}">>}
    IN { [fn |-> "extractPayloadObject", logContent |-> b \o m \o g \o o \o a] :
            b \in Before, m \in Markers, g \in Gaps, o \in Objects, a \in After }

\* The locator on lists of entries; the content of an entry tells its place.
LocatorCalls ==
    LET Names ==
            {NameBuild, NameDeploy, <<"N","o","t","i","f","y",".","t","x","t">>,
             <<"D","e","p","l","o","y"," ","T","r","i","g","g","e","r"," ","S","t","a","g","e",
               ".","t","x","t">>,
             <<"d","E","P","L","O","Y"," ","t","R","I","G","G","E","R"," ","s","T","A","G","E",
               ".","t","x","t">>,
             <<"d","e","p","l","o","y"," ","t","r","i","g","g","e","r",".","t","x","t">>}
    IN { [fn |-> "findDeployTriggerStageLog",
          entries |-> [i \in 1..Len(ns) |-> [fileName |-> ns[i], content |-> <<ToString(i)>>]]] :
            ns \in UNION {[1..k -> Names] : k \in 0..MaxEntries} }

\* The extractor on archives, malformed or not, with and without a filter.
ZipCalls ==
    LET Entries ==
            {Entry(NameBuild, FALSE, <<"b">>), Entry(<<"l","o","g","s","/">>, TRUE, << >>),
             Entry(NameDeploy, FALSE, <<"d">>),
             UnreadableEntry(<<"N","o","t","i","f","y",".","t","x","t">>)}
        Zips == {ZipMalformed} \cup {Zip(es) : es \in UNION {[1..k -> Entries] : k \in 0..MaxEntries}}
        Filters == {None, Some(<< >>), Some(<<"D","e","p","l","o","y">>), Some(<<"t","X","t">>)}
    IN { [fn |-> "extractLogsFromZip", zip |-> z, fileFilter |-> f] :
            z \in Zips, f \in Filters }

\* github_list_repos (github/tools.ts): the handler, for the arguments it was
\* sent (absent ones included), the APP_ID of the configuration and the
\* repositories the organisation's pages hold. The type argument, "all" when
\* absent, is handed to listRepos as its type; listRepos is given no status.
GithubListReposTool(appId, type, configAppId, fetched) ==
    LET id == IF IsSome(appId) THEN Get(appId) ELSE configAppId
        t == IF IsSome(type) THEN Get(type) ELSE "all"
    IN ListReposOk(fetched, id, t, "active")

(***************************************************************************)
(* Configuration of the orchestrator (orchestrator/lib/config.ts). The     *)
(* process environment and a .env file give each variable a value or none. *)
(***************************************************************************)
EnvKeys == {"BASE_URL", "API_TOKEN", "PROJECT_KEY", "ORG", "APP_ID"}

\* loadSiblingEnv: dotenv.config({ path, override: false }) adds the variables
\* of the file that the environment does not define yet.
LoadSiblingEnv(env, file) ==
    [k \in EnvKeys |-> IF IsSome(env[k]) THEN env[k] ELSE file[k]]

\* loadAllConfigs on an initial environment and the two sibling files: the
\* configurations, or the Error of a missing required variable.
LoadAllConfigs(env, jiraFile, githubFile) ==
    LET trim(s) ==
            LET solid == {i \in 1..Len(s) : s[i] \notin Whitespace}
            IN IF solid = {} THEN << >>
               ELSE SubSeq(s, CHOOSE i \in solid : \A j \in solid : i <= j,
                              CHOOSE i \in solid : \A j \in solid : i >= j)
        missing(e, k) == ~IsSome(e[k]) \/ trim(Get(e[k])) = << >>
        requireEnv(e, k) == trim(Get(e[k]))
        optionalEnv(e, k, fallback) == trim(IF IsSome(e[k]) THEN Get(e[k]) ELSE fallback)
        e2 == LoadSiblingEnv(LoadSiblingEnv(env, jiraFile), githubFile)
        e3 == LoadSiblingEnv(e2, githubFile)
    IN IF \E k \in {"BASE_URL", "API_TOKEN", "PROJECT_KEY"} : missing(e2, k)
       THEN ThrowsError(Lit("Missing required environment variable (jira server)"))
       ELSE IF \E k \in {"API_TOKEN", "ORG"} : missing(e3, k)
       THEN ThrowsError(Lit("Missing required environment variable (github server)"))
       ELSE Returns([jira |-> [baseUrl |-> requireEnv(e2, "BASE_URL"),
                               apiToken |-> requireEnv(e2, "API_TOKEN"),
                               projectKey |-> requireEnv(e2, "PROJECT_KEY")],
                     github |-> [baseUrl |-> optionalEnv(e3, "BASE_URL",
                                     <<"h","t","t","p","s",":","/","/","a","p","i",".",
                                       "g","i","t","h","u","b",".","c","o","m">>),
                                 apiToken |-> requireEnv(e3, "API_TOKEN"),
                                 org |-> requireEnv(e3, "ORG"),
                                 appId |-> optionalEnv(e3, "APP_ID", << >>)]])

UtilCalls ==
    MatcherCalls \cup PayloadCalls \cup LocatorCalls \cup ZipCalls
    \cup {[fn |-> "confluenceServer"]}
    \cup { [fn |-> "github_list_repos", appId |-> a, type |-> ty, configAppId |-> c,
            fetched |-> f] :
             a \in {None, Some(<< >>), Some(<<"z","z">>)},
             ty \in {None, Some("all"), Some("public"), Some("forks")},
             c \in {<< >>, AppId},
             f \in {<< >>, <<RepoSvc>>, <<RepoOther, RepoCd>>, <<RepoCd, RepoSvc, RepoOld>>,
                    <<RepoOld, RepoOther, RepoSvc, RepoCd>>} }
    \cup { [fn |-> "loadAllConfigs",
            env |-> [k \in EnvKeys |-> IF k = "BASE_URL" THEN eu
                                       ELSE IF k = "API_TOKEN" THEN et ELSE None],
            jiraFile |-> [k \in EnvKeys |-> IF k = "BASE_URL" THEN ju
                                            ELSE IF k = "API_TOKEN" THEN jt
                                            ELSE IF k = "PROJECT_KEY" THEN Some(<<"P">>)
                                            ELSE None],
            githubFile |-> [k \in EnvKeys |-> IF k = "BASE_URL" THEN gu
                                              ELSE IF k = "API_TOKEN" THEN gt
                                              ELSE IF k = "ORG" THEN go
                                              ELSE IF k = "APP_ID" THEN ga
                                              ELSE None]] :
             eu \in {None, Some(<<" ","e","u"," ">>)}, et \in {None, Some(<<"e","t">>)},
             ju \in {None, Some(<<"j","u">>)}, jt \in {None, Some(<<"j","t">>), Some(<<" ">>)},
             gu \in {None, Some(<<"g","u">>)}, gt \in {None, Some(<<"g","t">>)},
             go \in {None, Some(<<"o">>)}, ga \in {None, Some(AppId)} }

InitUtil ==
    /\ PipelineIdle
    /\ InitHarness
    /\ utilCall \in UtilCalls
    /\ utilResult = << >>

CallFindBranchesMatchingJiraIds ==
    /\ utilCall.fn = "findBranchesMatchingJiraIds"
    /\ utilResult = << >>
    /\ utilResult' = Some(FindBranchesMatchingJiraIds(utilCall.branches, utilCall.jiraIds))
    /\ UNCHANGED <<utilCall, rsCalls, rsWork, rsOutcome, invocations, requests>>
    /\ UNCHANGED pipelineVars

CallExtractPayloadObject ==
    /\ utilCall.fn = "extractPayloadObject"
    /\ utilResult = << >>
    /\ utilResult' = Some(ExtractPayloadObject(utilCall.logContent))
    /\ UNCHANGED <<utilCall, rsCalls, rsWork, rsOutcome, invocations, requests>>
    /\ UNCHANGED pipelineVars

CallFindDeployTriggerStageLog ==
    /\ utilCall.fn = "findDeployTriggerStageLog"
    /\ utilResult = << >>
    /\ utilResult' = Some(FindDeployTriggerStageLog(utilCall.entries))
    /\ UNCHANGED <<utilCall, rsCalls, rsWork, rsOutcome, invocations, requests>>
    /\ UNCHANGED pipelineVars

CallExtractLogsFromZip ==
    /\ utilCall.fn = "extractLogsFromZip"
    /\ utilResult = << >>
    /\ utilResult' = Some(ExtractLogsFromZip(utilCall.zip, utilCall.fileFilter))
    /\ UNCHANGED <<utilCall, rsCalls, rsWork, rsOutcome, invocations, requests>>
    /\ UNCHANGED pipelineVars

CallGithubListRepos ==
    /\ utilCall.fn = "github_list_repos"
    /\ utilResult = << >>
    /\ utilResult' = Some(GithubListReposTool(utilCall.appId, utilCall.type,
                                              utilCall.configAppId, utilCall.fetched))
    /\ UNCHANGED <<utilCall, rsCalls, rsWork, rsOutcome, invocations, requests>>
    /\ UNCHANGED pipelineVars

CallLoadAllConfigs ==
    /\ utilCall.fn = "loadAllConfigs"
    /\ utilResult = << >>
    /\ utilResult' = Some(LoadAllConfigs(utilCall.env, utilCall.jiraFile, utilCall.githubFile))
    /\ UNCHANGED <<utilCall, rsCalls, rsWork, rsOutcome, invocations, requests>>
    /\ UNCHANGED pipelineVars

(***************************************************************************)
(* Page tools of the Confluence server (confluence_create_page,            *)
(* confluence_update_page): a handler runs up to its await, and is resumed *)
(* by the answer to its request.                                           *)
(***************************************************************************)
\* A dry_run field whose default is false.
DryRunFieldDefaultFalse(arg) == IF IsSome(arg) THEN Get(arg) ELSE FALSE

\* DRY_RUN_FIELD = z.boolean().default(true): the value the handler receives
\* for the argument it was sent, absent or a boolean.
DryRunField(arg) == IF IsSome(arg) THEN Get(arg) ELSE TRUE

ConfluenceCreatePage ==
    /\ utilCall.fn = "confluenceServer"
    /\ Len(invocations) < MaxInvocations
    /\ \E arg \in {None, Some(TRUE), Some(FALSE)} :
         LET dry_run == DryRunField(arg)
             preview == BuildResponse([dry_run |-> TRUE, wouldSend |-> "page"],
                                      Lit("Dry run preview - no page was created."))
             n == Len(invocations) + 1
         IN IF dry_run
            THEN /\ invocations' = Append(invocations,
                        [tool |-> "confluence_create_page", dry_run |-> arg,
                         result |-> Some(preview)])
                 /\ UNCHANGED requests
            ELSE /\ invocations' = Append(invocations,
                        [tool |-> "confluence_create_page", dry_run |-> arg, result |-> None])
                 /\ requests' = Append(requests,
                        [method |-> "POST", path |-> "/pages", by |-> n])
    /\ UNCHANGED <<utilCall, utilResult, rsCalls, rsWork, rsOutcome>>
    /\ UNCHANGED pipelineVars

ConfluenceUpdatePage ==
    /\ utilCall.fn = "confluenceServer"
    /\ Len(invocations) < MaxInvocations
    /\ \E arg \in {None, Some(TRUE), Some(FALSE)} :
         LET dry_run == DryRunField(arg)
             preview == BuildResponse([dry_run |-> TRUE, wouldSend |-> "update"],
                                      Lit("Dry run preview - no page was updated."))
             n == Len(invocations) + 1
         IN IF dry_run
            THEN /\ invocations' = Append(invocations,
                        [tool |-> "confluence_update_page", dry_run |-> arg,
                         result |-> Some(preview)])
                 /\ UNCHANGED requests
            ELSE /\ invocations' = Append(invocations,
                        [tool |-> "confluence_update_page", dry_run |-> arg, result |-> None])
                 /\ requests' = Append(requests,
                        [method |-> "PUT", path |-> "/pages/{pageId}", by |-> n])
    /\ UNCHANGED <<utilCall, utilResult, rsCalls, rsWork, rsOutcome>>
    /\ UNCHANGED pipelineVars

\* createPage / updatePage resumed by the answer to the request of invocation
\* i: the page, or an error result; neither throws.
PageRequestAnswered ==
    /\ utilCall.fn = "confluenceServer"
    /\ \E i \in 1..Len(invocations) : \E ok \in BOOLEAN :
         /\ ~IsSome(invocations[i].result)
         /\ invocations' =
               [invocations EXCEPT ![i].result =
                   Some(IF ok THEN BuildResponse([dry_run |-> FALSE, wouldSend |-> "none"],
                                                 Lit("Page written."))
                        ELSE BuildError(Lit("Failed to write page: HTTP error"),
                                        [dry_run |-> FALSE, wouldSend |-> "none"]))]
    /\ UNCHANGED <<requests, utilCall, utilResult, rsCalls, rsWork, rsOutcome>>
    /\ UNCHANGED pipelineVars

(***************************************************************************)
(* Specifications                                                          *)
(***************************************************************************)
Init == InitPipeline /\ InitHarness /\ NoUtilCall
Next ==
    \/ BeginStep1 \/ VersionsAnswered
    \/ BeginStep2 \/ SearchAnswered
    \/ BeginStep3 \/ BulkAnswered
    \/ BeginStep4 \/ FirstPageAnswered \/ PageAnswered \/ BranchesAnswered
    \/ BeginStep5 \/ RunsAnswered \/ Download1Answered \/ Download2Answered
\* One invocation of the pipeline, the collaborators answering as they may.
Spec == Init /\ [][Next]_vars

NextUtil ==
    \/ CallFindBranchesMatchingJiraIds
    \/ CallExtractPayloadObject
    \/ CallFindDeployTriggerStageLog
    \/ CallExtractLogsFromZip
    \/ CallGithubListRepos
    \/ CallLoadAllConfigs
    \/ ConfluenceCreatePage
    \/ ConfluenceUpdatePage
    \/ PageRequestAnswered
\* One call of a pure function of the libraries on an input of the catalogue.
SpecUtil == InitUtil /\ [][NextUtil]_vars

NextListing ==
    \/ BeginStep1 \/ VersionsAnswered
    \/ BeginStep2 \/ SearchAnswered
    \/ BeginStep3 \/ BulkAnswered
    \/ BeginStep4 \/ FirstPageAnswered \/ PageAnswered
InitListing ==
    /\ InitPipeline
    /\ InitHarness
    /\ utilCall = [fn |-> "listRepos"]
    /\ utilResult = << >>
\* An invocation followed up to the end of its repository listing.
SpecListing == InitListing /\ [][NextListing]_vars

NextRunStep == CallRunStep
\* runStep called on arbitrary units of work.
SpecRunStep == Init /\ [][NextRunStep]_vars

(***************************************************************************)
(* Properties                                                              *)
(***************************************************************************)
Returned == IsSome(response)
\* The ReleaseSummaryReport of the returned envelope.
ReportOf == Get(response).data
Executed(st, slot) == st[slot].status \in {"success", "failed"}
NoVersionSupplied == ~IsSome(input.fixVersion) \/ Get(input.fixVersion) = ""

\* C1: for every unit of work (it returns a value, throws an Error, or throws
\* a value that is no Error) runStep does not throw; it returns status success
\* with the returned data iff the work returned, and otherwise status failed
\* with an error string (the message of a thrown Error) and no data.
RunStepNeverThrows ==
    IsSome(rsOutcome) =>
        LET work == Get(rsWork)
            out == Get(rsOutcome)
        IN /\ ~out.threw
           /\ LET r == Get(out.result)
              IN /\ (r.status = "success") <=> (work.kind = "returns")
                 /\ r.status = "success" => r.data = work.value /\ ~IsSome(r.error)
                 /\ r.status # "success" =>
                       /\ r.status = "failed"
                       /\ ~IsSome(r.data)
                       /\ IsSome(r.error)
                       /\ work.kind = "throwsError" => r.error = work.message

\* C2: in every returned report overallStatus is failed iff fixVersionResolution
\* or issueSearch is failed, complete iff all six steps are success, and
\* partial in every other case.
OverallStatusClassification ==
    Returned =>
        LET st == ReportOf.steps
            fatal == st["fixVersionResolution"].status = "failed"
                     \/ st["issueSearch"].status = "failed"
            allSuccess == \A slot \in SlotSet : st[slot].status = "success"
        IN /\ ReportOf.overallStatus \in {"failed", "partial", "complete"}
           /\ (ReportOf.overallStatus = "failed") <=> fatal
           /\ (ReportOf.overallStatus = "complete") <=> allSuccess
           /\ (ReportOf.overallStatus = "partial") <=> (~fatal /\ ~allSuccess)
\* A report classified complete has been returned.
CompleteReportReturned ==
    Returned /\ ReportOf.overallStatus = "complete"

\* The version lookup has been answered, and it failed or listed no version
\* that is neither released nor archived.
LookupFoundNoVersion ==
    /\ Len(calls) >= 1
    /\ calls[1].api = "getFirstUnreleasedVersion"
    /\ IsSome(answers[1])
    /\ LET a == Get(answers[1])
       IN ~a.ok \/ \A i \in 1..Len(a.versions) : a.versions[i].released \/ a.versions[i].archived

\* C3: when the caller supplies no version and the lookup fails or finds no
\* unreleased version, the pipeline stops after step 1: no further call, the
\* report is returned with overallStatus failed, fixVersionResolution failed,
\* the five other slots still skipped, and no report block.
AutoResolutionFailureStopsPipeline ==
    (NoVersionSupplied /\ LookupFoundNoVersion) =>
        /\ pc = "done"
        /\ Len(calls) = 1
        /\ Returned
        /\ ReportOf.overallStatus = "failed"
        /\ ReportOf.steps["fixVersionResolution"].status = "failed"
        /\ \A slot \in SlotSet \ {"fixVersionResolution"} : ReportOf.steps[slot] = SkipStep
        /\ ~IsSome(ReportOf.report)
\* The lookup answered with versions, none of them eligible, and the report
\* has been returned.
LookupListedNoEligibleVersion ==
    /\ NoVersionSupplied
    /\ LookupFoundNoVersion
    /\ Get(answers[1]).ok
    /\ Len(Get(answers[1]).versions) > 0
    /\ Returned

\* C4: when issueSearch fails no later step attempts execution: no call of a
\* later step is ever issued, the four later slots stay skipped, and the report
\* is built at once with overallStatus failed.
IssueSearchFailureStopsPipeline ==
    steps["issueSearch"].status = "failed" =>
        /\ pc = "done"
        /\ Returned
        /\ ReportOf.overallStatus = "failed"
        /\ ReportOf.steps = steps
        /\ \A i \in 1..Len(calls) : calls[i].step \in {"fixVersionResolution", "issueSearch"}
        /\ InFlight = {}
        /\ \A slot \in {"parentFeatures", "branchDiscovery", "logDownload", "payloadExtraction"} :
              steps[slot] = SkipStep
\* The issue search failed after a successful version lookup.
IssueSearchFailedAfterLookup ==
    /\ steps["issueSearch"].status = "failed"
    /\ steps["fixVersionResolution"].status = "success"
    /\ Len(calls) = 2

\* C5 (as stated): the report block of the returned report is present iff
\* issueSearch has status success, whatever the number of issues found.
ReportBlockIffIssueSearchSucceeded ==
    Returned => (IsSome(ReportOf.report) <=> ReportOf.steps["issueSearch"].status = "success")

\* The log the payloadExtraction work located, absent when it located none.
ExtractionLog ==
    IF /\ Len(calls) >= 1
       /\ calls[Len(calls)].step = "payloadExtraction"
       /\ IsSome(answers[Len(calls)])
    THEN ReadDeployLog(Get(answers[Len(calls)]), << >>).log
    ELSE None

\* C6 (as stated): in every run where steps 1-4 succeed with zero branch
\* matches and a non-empty filtered listing, logDownload succeeds on the first
\* listed repository and the located deploy log has no Payload marker:
\* payloadExtraction is failed, overallStatus is partial, report.deployPayload
\* is the empty object and report.branchMatches is the empty list.
ScenarioNoPayloadMarker ==
    ( /\ Returned
      /\ \A slot \in {"fixVersionResolution", "issueSearch", "parentFeatures",
                      "branchDiscovery", "logDownload"} : steps[slot].status = "success"
      /\ Len(Get(steps["branchDiscovery"].data).matches) = 0
      /\ Len(Get(steps["branchDiscovery"].data).repos) > 0
      /\ Get(steps["logDownload"].data).repo = Get(steps["branchDiscovery"].data).repos[1]
      /\ IsSome(ExtractionLog)
      /\ SearchPayloadMarker(Get(ExtractionLog).content) = 0 ) =>
        /\ ReportOf.steps["payloadExtraction"].status = "failed"
        /\ ReportOf.overallStatus = "partial"
        /\ IsSome(ReportOf.report)
        /\ Get(ReportOf.report).deployPayload = JObject(<< >>)
        /\ Get(ReportOf.report).branchMatches = << >>

\* C7: the steps execute in strict order: a call in flight belongs to a step
\* whose earlier slots are all recorded and whose own slot is not, the calls
\* are issued in step order, and calls are in flight together only as the
\* branch listings and repository page fetches of step 4.
StrictStepOrder ==
    /\ \A i \in InFlight :
          LET k == SlotIndex(calls[i].step)
          IN /\ \A j \in 1..(k - 1) : Slots[j] \in Range(assigned)
             /\ Slots[k] \notin Range(assigned)
    /\ \A i \in 1..(Len(calls) - 1) :
          SlotIndex(calls[i].step) <= SlotIndex(calls[i + 1].step)
    /\ Cardinality(InFlight) > 1 =>
          \A i \in InFlight : /\ calls[i].step = "branchDiscovery"
                              /\ calls[i].api \in {"listBranches", "listRepos.page"}
\* Two branch listings are in flight together.
BranchListingsInFlightTogether ==
    /\ Awaiting("awaitBranches")
    /\ Cardinality(InFlight) > 1

\* C8: all six slots hold skipped before any step runs; each slot is assigned
\* at most once, in step order, and no earlier slot is assigned after a later
\* one; a slot not assigned still holds skipped.
SlotsAssignedOnceInOrder ==
    /\ assigned = << >> => \A slot \in SlotSet : steps[slot] = SkipStep
    /\ \A i, j \in 1..Len(assigned) :
          i < j => SlotIndex(assigned[i]) < SlotIndex(assigned[j])
    /\ \A slot \in SlotSet \ Range(assigned) : steps[slot].status = "skipped"
\* Every slot has been assigned, the last one by a run of its step.
AllSlotsAssigned ==
    /\ Len(assigned) = Len(Slots)
    /\ Executed(steps, "payloadExtraction")

\* The dependencies of the steps: <<step, the step it depends on>>.
DependsOn ==
    { <<"issueSearch", "fixVersionResolution">>,
      <<"parentFeatures", "issueSearch">>,
      <<"branchDiscovery", "issueSearch">>,
      <<"logDownload", "branchDiscovery">>,
      <<"payloadExtraction", "logDownload">> }

\* C9: in every reachable state and every returned report a step is success or
\* failed only if each step it depends on was executed (is success or failed).
DependenciesExecuted ==
    /\ \A d \in DependsOn : Executed(steps, d[1]) => Executed(steps, d[2])
    /\ Returned =>
          \A d \in DependsOn : Executed(ReportOf.steps, d[1]) => Executed(ReportOf.steps, d[2])
\* The report is returned with branchDiscovery executed and both log steps
\* skipped for want of a target repository.
LogStepsSkippedWithoutTarget ==
    /\ Returned
    /\ Executed(steps, "branchDiscovery")
    /\ ~IsSome(TargetRepo(steps))
    /\ steps["logDownload"].status = "skipped"
    /\ steps["payloadExtraction"].status = "skipped"

\* The target repository the selection rule names, from the recorded result of
\* branchDiscovery.
ExpectedTarget ==
    LET bd == steps["branchDiscovery"]
    IN IF bd.status = "success" /\ Len(Get(bd.data).matches) > 0
       THEN Some(Get(bd.data).matches[1].repo)
       ELSE IF bd.status = "success" /\ Len(Get(bd.data).repos) > 0
       THEN Some(Get(bd.data).repos[1])
       ELSE None
\* Index of the first match of repository r.
FirstMatchOf(r) ==
    LET matches == Get(steps["branchDiscovery"].data).matches
    IN CHOOSE i \in 1..Len(matches) :
          matches[i].repo = r /\ \A j \in 1..(i - 1) : matches[j].repo # r

\* C10: with at least one match the candidates are the distinct repositories
\* of the matches, in match order, and the first is the target; with no match
\* the target is the first repository of the filtered listing; with a failed
\* discovery or an empty listing there is none. Without a target both log steps
\* are skipped, no workflow-run or log-download call is made, and the report is
\* assembled at once; with a target every such call names it.
TargetRepositorySelection ==
    "branchDiscovery" \in Range(assigned) =>
        LET bd == steps["branchDiscovery"]
            cand == MatchedRepos(steps)
            logCalls == {i \in 1..Len(calls) :
                            calls[i].step \in {"logDownload", "payloadExtraction"}}
        IN /\ (bd.status = "success" /\ Len(Get(bd.data).matches) > 0) =>
                 /\ Range(cand) = {Get(bd.data).matches[i].repo :
                                      i \in 1..Len(Get(bd.data).matches)}
                 /\ \A i, j \in 1..Len(cand) :
                       i < j => FirstMatchOf(cand[i]) < FirstMatchOf(cand[j])
           /\ TargetRepo(steps) = ExpectedTarget
           /\ \A i \in logCalls :
                 /\ IsSome(ExpectedTarget)
                 /\ calls[i].repo = Get(ExpectedTarget)
                 /\ calls[i].api \in {"listWorkflowRuns", "downloadRunLogs"}
           /\ (pc # "step5" /\ ~IsSome(ExpectedTarget)) =>
                 /\ pc = "done"
                 /\ Returned
                 /\ logCalls = {}
                 /\ steps["logDownload"] = SkipStep
                 /\ steps["payloadExtraction"] = SkipStep
           /\ (pc # "step5" /\ IsSome(ExpectedTarget)) =>
                 /\ logCalls # {}
                 /\ Executed(steps, "logDownload") \/ pc \in {"awaitRuns", "awaitDownload1"}
\* Several matches name one repository, which is not the first listed, and
\* its log has been asked for.
TargetIsMatchedRepository ==
    /\ steps["branchDiscovery"].status = "success"
    /\ Len(Get(steps["branchDiscovery"].data).matches) > Len(MatchedRepos(steps))
    /\ Get(steps["branchDiscovery"].data).matches[1].repo
         # Get(steps["branchDiscovery"].data).repos[1]
    /\ Executed(steps, "logDownload")

\* The branch listings of the invocation (indices into calls), in order of issue.
BranchListings ==
    SelectSeq([i \in 1..Len(calls) |-> i], LAMBDA i : calls[i].api = "listBranches")
\* The branches of the listings that succeeded, each tagged with its repository.
BranchesOfSucceededListings ==
    Flat([n \in 1..Len(BranchListings) |->
            LET c == BranchListings[n]
                a == Get(answers[c])
            IN IF a.ok
               THEN [b \in 1..Len(a.branches) |->
                       [name |-> a.branches[b].name, repo |-> calls[c].repo]]
               ELSE << >>])
\* The first page of the repository listing was asked for and refused.
TopLevelListingFailed ==
    \E i \in 1..Len(calls) :
        /\ calls[i].api = "listRepos.page"
        /\ calls[i].num = 1
        /\ IsSome(answers[i])
        /\ ~Get(answers[i]).ok

\* C11: whatever branch listings fail in step 4, the step reports success:
\* every listing has run to completion, a failed one contributes no branch,
\* the matches are the Branch Matcher's output over the branches of the
\* listings that succeeded, and repos / searchedRepos count every listed
\* repository. branchDiscovery is failed only when the top-level repository
\* listing failed.
BranchListingFailuresIsolated ==
    "branchDiscovery" \in Range(assigned) =>
        LET bd == steps["branchDiscovery"]
        IN /\ bd.status \in {"success", "failed"}
           /\ (bd.status = "failed") <=> TopLevelListingFailed
           /\ bd.status = "success" =>
                 /\ \A n \in 1..Len(BranchListings) : IsSome(answers[BranchListings[n]])
                 /\ Get(bd.data).matches =
                       FindBranchesMatchingJiraIds(BranchesOfSucceededListings,
                                                   [k \in 1..Len(issues) |-> issues[k].key])
                 /\ Get(bd.data).repos =
                       [n \in 1..Len(BranchListings) |-> calls[BranchListings[n]].repo]
                 /\ Get(bd.data).searchedRepos = Len(BranchListings)
\* One listing failed, another succeeded and its branches matched.
OneListingFailedOthersMatched ==
    /\ steps["branchDiscovery"].status = "success"
    /\ \E n \in 1..Len(BranchListings) : ~Get(answers[BranchListings[n]]).ok
    /\ Len(Get(steps["branchDiscovery"].data).matches) > 0

\* What the invocation has done so far: calls issued, calls answered, slots
\* assigned.
Progress == Len(calls) + (Len(calls) - Cardinality(InFlight)) + Len(assigned)

\* The invocation is at the start of a step, or suspended at an await with a
\* call in flight: the guard of one of the actions holds.
CanContinue ==
    \/ pc \in {"step1", "step2", "step3", "step4", "step5"}
    \/ \E p \in {"awaitVersions", "awaitSearch", "awaitBulk", "awaitFirstPage", "awaitPages",
                  "awaitBranches", "awaitRuns", "awaitDownload1", "awaitDownload2"} :
          Awaiting(p)

\* C12: provided every collaborator call is answered, every invocation returns
\* a report: until it has returned, a continuation or an answer can always take
\* place, and each one adds to what has been done, so the invocation cannot go
\* on for ever; the report is assembled exactly once, whatever the step
\* outcomes, and nothing happens after it.
InvocationAlwaysReturnsReport ==
    /\ [](pc # "done" => CanContinue)
    /\ [][Progress' > Progress]_vars
    /\ [](Returned <=> pc = "done")
    /\ [][response' # response => (~Returned /\ IsSome(response') /\ pc' = "done")]_vars
    /\ [][Returned => UNCHANGED pipelineVars]_vars
\* The report has been returned after a fatal failure of step 1.
ReportReturnedAfterFatalStep1 ==
    /\ Returned
    /\ pc = "done"
    /\ steps["fixVersionResolution"].status = "failed"
    /\ ReportOf.steps = steps

\* The matcher has been called and has returned.
MatcherReturned == utilCall.fn = "findBranchesMatchingJiraIds" /\ IsSome(utilResult)
\* name holds, whatever the letter case, one of P-N, P_N and PN (P and N the
\* parts of id around its hyphen) as a whole token: preceded by the start of
\* the name or one of / _ - and followed by one of / _ - or the end of the name.
HoldsDelimitedToken(id, name) ==
    LET h == CHOOSE i \in 1..Len(id) : id[i] = "-"
        P == SubSeq(id, 1, h - 1)
        N == SubSeq(id, h + 1, Len(id))
        tokens == {ToLowerCase(P \o <<"-">> \o N), ToLowerCase(P \o <<"_">> \o N),
                   ToLowerCase(P \o N)}
    IN \E i \in 1..Len(name) : \E j \in i..Len(name) :
          /\ ToLowerCase(SubSeq(name, i, j)) \in tokens
          /\ i = 1 \/ name[i - 1] \in {"/", "_", "-"}
          /\ j = Len(name) \/ name[j + 1] \in {"/", "_", "-"}

\* C13: for an identifier P-N the matcher reports a branch for it iff the
\* branch name holds, case-insensitively, one of P-N, P_N or PN as a whole
\* delimited token.
MatcherPattern ==
    MatcherReturned =>
        \A b \in 1..Len(utilCall.branches) : \A k \in 1..Len(utilCall.jiraIds) :
            (\E n \in 1..Len(Get(utilResult)) :
                Get(utilResult)[n] = [jiraId |-> utilCall.jiraIds[k],
                                      branchName |-> utilCall.branches[b].name,
                                      repo |-> utilCall.branches[b].repo])
            <=> HoldsDelimitedToken(utilCall.jiraIds[k], utilCall.branches[b].name)
\* feature/proj_123_login has been matched against PROJ-123.
LowerCaseUnderscoreNameMatched ==
    /\ MatcherReturned
    /\ utilCall.jiraIds = <<KeyPROJ123>>
    /\ utilCall.branches[1].name =
         <<"f","e","a","t","u","r","e","/","p","r","o","j","_","1","2","3","_","l","o","g","i","n">>
    /\ Len(Get(utilResult)) = 1

\* The (branch, identifier) pairs of the call whose branch name matches.
MatchingPairs ==
    {q \in (1..Len(utilCall.branches)) \X (1..Len(utilCall.jiraIds)) :
        HoldsDelimitedToken(utilCall.jiraIds[q[2]], utilCall.branches[q[1]].name)}
\* The place of a pair among the matching pairs, by branch and then identifier.
PlaceOf(q) ==
    1 + Cardinality({r \in MatchingPairs : r[1] < q[1] \/ (r[1] = q[1] /\ r[2] < q[2])})

\* C14: the matcher returns exactly one record for every (branch, identifier)
\* pair whose branch name matches, and nothing else, ordered by branch and
\* then by identifier, without de-duplication; an empty identifier list or an
\* empty branch list gives the empty list.
MatcherOutput ==
    MatcherReturned =>
        /\ Len(Get(utilResult)) = Cardinality(MatchingPairs)
        /\ \A q \in MatchingPairs :
              Get(utilResult)[PlaceOf(q)] = [jiraId |-> utilCall.jiraIds[q[2]],
                                             branchName |-> utilCall.branches[q[1]].name,
                                             repo |-> utilCall.branches[q[1]].repo]
        /\ (Len(utilCall.branches) = 0 \/ Len(utilCall.jiraIds) = 0) => Get(utilResult) = << >>
\* One branch matched two identifiers and appears twice, after another branch.
BranchReportedTwice ==
    /\ MatcherReturned
    /\ Len(Get(utilResult)) >= 3
    /\ Get(utilResult)[2].branchName = Get(utilResult)[3].branchName
    /\ Get(utilResult)[2].jiraId # Get(utilResult)[3].jiraId
    /\ Get(utilResult)[1].branchName # Get(utilResult)[2].branchName

\* The payload extractor has been called and has returned.
PayloadReturned == utilCall.fn = "extractPayloadObject" /\ IsSome(utilResult)
\* The places of the text where a marker starts: the word Payload in any
\* letter case, then whitespace or nothing, then a colon.
MarkerPlaces(s) ==
    {i \in 1..Len(s) :
        \E c \in (i + 7)..Len(s) :
            /\ ToLowerCase(SubSeq(s, i, i + 6)) = <<"p","a","y","l","o","a","d">>
            /\ \A w \in (i + 7)..(c - 1) : s[w] \in Whitespace
            /\ s[c] = ":"}
Lowest(S) == CHOOSE x \in S : \A y \in S : x <= y
\* The opening braces after the first marker.
BracesAfterMarker(s) == {i \in Lowest(MarkerPlaces(s))..Len(s) : s[i] = "{"}
\* The brace depth at place i, counted from place b.
DepthAt(s, b, i) ==
    Cardinality({k \in b..i : s[k] = "{"}) - Cardinality({k \in b..i : s[k] = "}"})
\* The places at which the depth counted from the first brace is back at zero.
ClosingPlaces(s) ==
    LET b == Lowest(BracesAfterMarker(s))
    IN {i \in b..Len(s) : DepthAt(s, b, i) = 0}
PayloadText(s) == SubSeq(s, Lowest(BracesAfterMarker(s)), Lowest(ClosingPlaces(s)))

\* C15: extractPayloadObject has exactly four outcomes: without a marker a
\* success without payload; with a marker and no opening brace after it a
\* different success without payload; with a depth that never returns to
\* zero an error; otherwise the text from the first brace to the first place
\* of depth zero is parsed, giving the object or, when parsing fails, an error.
PayloadFourOutcomes ==
    PayloadReturned =>
        LET s == utilCall.logContent
            r == Get(utilResult)
            noMarker == BuildResponse(None, Lit("No 'Payload:' marker found in log content."))
        IN IF MarkerPlaces(s) = {}
           THEN r = noMarker
           ELSE IF BracesAfterMarker(s) = {}
           THEN r.success /\ r.data = None /\ r # noMarker
           ELSE IF ClosingPlaces(s) = {}
           THEN ~r.success /\ r.data = None
           ELSE IF JsonParse(PayloadText(s)).ok
           THEN /\ r.success
                /\ r.data = Some(JsonParse(PayloadText(s)).val)
                /\ Get(r.data).t = "object"
           ELSE ~r.success /\ r.data = None
\* An object was extracted after an upper-case marker that follows text with
\* braces of its own, and the text after the object was left out.
PayloadAfterUpperCaseMarker ==
    /\ PayloadReturned
    /\ utilCall.logContent =
         <<"{","}"," ","P","A","Y","L","O","A","D"," ",":"," ",
           "{","\"","a","\"",":","{","\"","b","\"",":","2","}","}"," ","{","}">>
    /\ Get(utilResult).success
    /\ IsSome(Get(utilResult).data)

\* The locator has been called and has returned.
LocatorReturned == utilCall.fn = "findDeployTriggerStageLog" /\ IsSome(utilResult)
\* name holds sub, whatever the letter case of either.
HoldsIgnoringCase(name, sub) ==
    \E i \in 1..(Len(name) - Len(sub) + 1) :
        ToLowerCase(SubSeq(name, i, i + Len(sub) - 1)) = ToLowerCase(sub)
\* The places of the entries whose file name qualifies.
QualifyingPlaces ==
    {i \in 1..Len(utilCall.entries) :
        HoldsIgnoringCase(utilCall.entries[i].fileName,
            <<"d","e","p","l","o","y"," ","t","r","i","g","g","e","r"," ","s","t","a","g","e">>)}

\* C16: findDeployTriggerStageLog returns the first entry, in input order,
\* whose file name holds 'deploy trigger stage' in any letter case, and a
\* success without entry, never an error, when no entry qualifies.
LocatorReturnsFirstQualifying ==
    LocatorReturned =>
        /\ Get(utilResult).success
        /\ IF QualifyingPlaces = {}
           THEN Get(utilResult).data = None
           ELSE Get(utilResult).data = Some(utilCall.entries[Lowest(QualifyingPlaces)])
\* Among Build.txt, a deploy log in mixed letter case and a second deploy
\* log, the entry at the second place was returned.
SecondOfThreeEntriesLocated ==
    /\ LocatorReturned
    /\ [i \in 1..Len(utilCall.entries) |-> utilCall.entries[i].fileName]
         = <<NameBuild,
             <<"d","E","P","L","O","Y"," ","t","R","I","G","G","E","R"," ","s","T","A","G","E",
               ".","t","x","t">>,
             NameDeploy>>
    /\ Get(utilResult).data = Some(utilCall.entries[2])

\* The archive extractor has been called and has returned.
ZipReturned == utilCall.fn = "extractLogsFromZip" /\ IsSome(utilResult)
\* The places of the archive entries that are no directory and whose name
\* holds the filter, all places of files when no filter is given.
RetainedPlaces ==
    {i \in 1..Len(utilCall.zip.entries) :
        /\ ~utilCall.zip.entries[i].isDirectory
        /\ IsSome(utilCall.fileFilter) =>
              HoldsIgnoringCase(utilCall.zip.entries[i].entryName, Get(utilCall.fileFilter))}
\* The archive cannot be opened, or an entry to be read cannot be read.
ArchiveFails ==
    \/ utilCall.zip.malformed
    \/ \E i \in RetainedPlaces : utilCall.zip.entries[i].unreadable

\* C17: extractLogsFromZip returns, in archive order, exactly the entries that
\* are no directory and whose name holds the filter in any letter case (all
\* files without a filter); when the archive fails it returns one error with
\* an empty list, never the entries read before the failure.
ZipExtraction ==
    ZipReturned =>
        LET r == Get(utilResult)
            place(i) == Cardinality({j \in RetainedPlaces : j <= i})
        IN IF ArchiveFails
           THEN ~r.success /\ r.data = << >> /\ Len(r.errors) = 1
           ELSE /\ r.success
                /\ Len(r.data) = Cardinality(RetainedPlaces)
                /\ \A i \in RetainedPlaces :
                      r.data[place(i)] = [fileName |-> utilCall.zip.entries[i].entryName,
                                          content |-> utilCall.zip.entries[i].content]
\* An archive failed at its third entry after two entries had been read.
ArchiveFailedAfterTwoEntries ==
    /\ ZipReturned
    /\ ~utilCall.zip.malformed
    /\ Len(utilCall.zip.entries) = 3
    /\ RetainedPlaces = {1, 2, 3}
    /\ ~utilCall.zip.entries[1].unreadable
    /\ ~utilCall.zip.entries[2].unreadable
    /\ utilCall.zip.entries[3].unreadable
    /\ ~Get(utilResult).success
    /\ Get(utilResult).data = << >>

\* The workflow-run listings and the downloads that logDownload has issued.
RunListings == {i \in 1..Len(calls) : calls[i].api = "listWorkflowRuns"}
LogDownloads ==
    {i \in 1..Len(calls) : calls[i].api = "downloadRunLogs" /\ calls[i].step = "logDownload"}
\* The caller gave a run id and did not ask for a refresh.
RunIdSuppliedAndKept == IsSome(input.workflowRunId) /\ ~input.forceLogRefresh

\* C18: once logDownload runs, no workflow-run listing is issued and the
\* caller's run id is downloaded iff the id is present and forceLogRefresh is
\* not set; otherwise one listing restricted to status completed with page
\* size 1 is issued, the run downloaded is the first it returned, and
\* logDownload fails without a download if it fails or returns no run.
RunIdResolution ==
    (RunListings \cup LogDownloads # {}) =>
        /\ RunListings = {} <=> RunIdSuppliedAndKept
        /\ RunIdSuppliedAndKept =>
              \A d \in LogDownloads : calls[d].num = Get(input.workflowRunId)
        /\ Cardinality(RunListings) <= 1
        /\ \A l \in RunListings :
              /\ calls[l].status = "completed" /\ calls[l].num = 1
              /\ calls[l].repo = Get(ExpectedTarget)
              /\ \A d \in LogDownloads :
                    /\ d > l /\ IsSome(answers[l])
                    /\ Get(answers[l]).ok /\ Len(Get(answers[l]).runs) > 0
                    /\ calls[d].num = Get(answers[l]).runs[1].id
              /\ (IsSome(answers[l]) /\ (~Get(answers[l]).ok \/ Len(Get(answers[l]).runs) = 0))
                    => LogDownloads = {} /\ steps["logDownload"].status = "failed"
\* A run id was supplied with forceLogRefresh set, and the run the listing
\* returned was downloaded instead.
SuppliedRunIdOverridden ==
    /\ IsSome(input.workflowRunId)
    /\ input.forceLogRefresh
    /\ \E d \in LogDownloads : calls[d].num # Get(input.workflowRunId)

\* The places of the step-2 issues that name a non-empty parent key no earlier
\* issue names.
FirstAppearances ==
    {i \in 1..Len(issues) :
        /\ IsSome(issues[i].parent) /\ Get(issues[i].parent) # << >>
        /\ \A j \in 1..(i - 1) : issues[j].parent # issues[i].parent}
\* Step 3 has run: its slot has been assigned.
Step3Done == "parentFeatures" \in Range(assigned)
BulkFetches == {i \in 1..Len(calls) : calls[i].api = "bulkGetIssues"}

\* C19: the uniqueParentKeys of step 3 are the distinct non-empty parent keys
\* of the step-2 issues in order of first appearance; when there are none,
\* parentFeatures is success with empty features and keys and no bulk fetch is
\* issued; whenever issueSearch succeeded parentFeatures is success or failed
\* once step 3 has run; and a failed bulk fetch makes parentFeatures failed
\* while branchDiscovery is still attempted.
ParentFeaturesStep ==
    LET pf == steps["parentFeatures"]
        place(i) == Cardinality({j \in FirstAppearances : j <= i})
    IN /\ BulkFetches # {} <=> (pc \notin {"step1", "awaitVersions", "step2", "awaitSearch", "step3"}
                                /\ steps["issueSearch"].status = "success"
                                /\ FirstAppearances # {})
       /\ \A b \in BulkFetches : calls[b].num = Cardinality(FirstAppearances)
       /\ pf.status = "success" =>
             /\ Len(Get(pf.data).uniqueParentKeys) = Cardinality(FirstAppearances)
             /\ \A i \in FirstAppearances :
                   Get(pf.data).uniqueParentKeys[place(i)] = Get(issues[i].parent)
       /\ (Step3Done /\ FirstAppearances = {}) =>
             pf = [status |-> "success",
                   data |-> Some([features |-> << >>, uniqueParentKeys |-> << >>]),
                   error |-> None, durationMs |-> 0]
       /\ (Step3Done /\ steps["issueSearch"].status = "success") => Executed(steps, "parentFeatures")
       /\ (Returned /\ ReportOf.steps["issueSearch"].status = "success") =>
             Executed(ReportOf.steps, "parentFeatures")
       /\ \A b \in BulkFetches :
             (IsSome(answers[b]) /\ ~Get(answers[b]).ok) =>
                /\ pf.status = "failed"
                /\ pc # "step4" => \E c \in 1..Len(calls) : calls[c].step = "branchDiscovery"
                /\ Returned => Executed(ReportOf.steps, "branchDiscovery")
\* The bulk fetch of two parent keys, the second key first named by the third
\* issue, failed, and branchDiscovery ran all the same.
BranchDiscoveryAfterFailedBulkFetch ==
    /\ Cardinality(FirstAppearances) = 2
    /\ \E b \in BulkFetches : IsSome(answers[b]) /\ ~Get(answers[b]).ok
    /\ steps["parentFeatures"].status = "failed"
    /\ Executed(steps, "branchDiscovery")

\* The report block of the returned report, its groups and its feature records.
Grouping == Get(ReportOf.report)
FeatureRecords ==
    IF ReportOf.steps["parentFeatures"].status = "success"
    THEN Get(ReportOf.steps["parentFeatures"].data).features
    ELSE << >>
\* How often issue x appears in the list s.
Appearances(x, s) == Cardinality({n \in 1..Len(s) : s[n] = x})
\* The place of issue x among the step-2 issues.
IssuePlace(x) == CHOOSE i \in 1..Len(issues) : issues[i] = x
InIssueOrder(s) ==
    \A a \in 1..Len(s) : \A b \in (a + 1)..Len(s) : IssuePlace(s[a]) < IssuePlace(s[b])

\* C20: in a returned report block every step-2 issue appears exactly once:
\* in the group keyed by its parent key, or in unparentedIssues when it has no
\* parent key; groups are in order of first appearance of their key and keep
\* the issue order; a group whose key has no feature record in step 3's data
\* (always so when parentFeatures is failed) carries the placeholder summary
\* and status.
ReportGroupingIsPartition ==
    (Returned /\ IsSome(ReportOf.report)) =>
        LET groups == Grouping.issuesByFeature
            loose == Grouping.unparentedIssues
            place(i) == Cardinality({j \in FirstAppearances : j <= i})
        IN /\ \A i \in 1..Len(issues) :
                 LET x == issues[i]
                     keyed == IsSome(x.parent) /\ Get(x.parent) # << >>
                 IN /\ Appearances(x, loose) = (IF keyed THEN 0 ELSE 1)
                    /\ \A g \in 1..Len(groups) :
                          Appearances(x, groups[g].issues) =
                             (IF keyed /\ groups[g].featureKey = Get(x.parent) THEN 1 ELSE 0)
                    /\ keyed => \E g \in 1..Len(groups) : groups[g].featureKey = Get(x.parent)
           /\ \A g \in 1..Len(groups) :
                 /\ groups[g].issues # << >>
                 /\ Range(groups[g].issues) \subseteq Range(issues)
                 /\ InIssueOrder(groups[g].issues)
           /\ Range(loose) \subseteq Range(issues) /\ InIssueOrder(loose)
           /\ Len(groups) = Cardinality(FirstAppearances)
           /\ \A i \in FirstAppearances : groups[place(i)].featureKey = Get(issues[i].parent)
           /\ \A g \in 1..Len(groups) :
                 (\A f \in 1..Len(FeatureRecords) : FeatureRecords[f].key # groups[g].featureKey)
                    => /\ groups[g].featureSummary = <<"(summary unavailable)">>
                       /\ groups[g].featureStatus = <<"unknown">>
           /\ ReportOf.steps["parentFeatures"].status = "failed" =>
                 \A g \in 1..Len(groups) :
                    /\ groups[g].featureSummary = <<"(summary unavailable)">>
                    /\ groups[g].featureStatus = <<"unknown">>
\* A report with two groups, the first holding two issues and feature data, the
\* second a placeholder for want of a feature record, and an unparented issue.
TwoGroupsOnePlaceholder ==
    /\ Returned /\ IsSome(ReportOf.report)
    /\ Len(Grouping.issuesByFeature) = 2
    /\ Len(Grouping.issuesByFeature[1].issues) = 2
    /\ Grouping.issuesByFeature[1].featureSummary # <<"(summary unavailable)">>
    /\ Grouping.issuesByFeature[2].featureSummary = <<"(summary unavailable)">>
    /\ Len(Grouping.unparentedIssues) = 1

\* Steps 1 and 2 succeeded and one of the later three steps failed.
LateStepFailed ==
    /\ steps["fixVersionResolution"].status = "success"
    /\ steps["issueSearch"].status = "success"
    /\ \E slot \in {"branchDiscovery", "logDownload", "payloadExtraction"} :
          steps[slot].status = "failed"

\* C21: in every run where fixVersionResolution and issueSearch succeed and
\* one of branchDiscovery, logDownload, payloadExtraction fails, the returned
\* report holds the results of steps 1-3 (the resolved version, the issues
\* found, the parent features or their failure) and its overallStatus is
\* partial.
PartialSuccessKeepsEarlySteps ==
    (Returned /\ LateStepFailed) =>
        LET st == ReportOf.steps
        IN /\ ReportOf.overallStatus = "partial"
           /\ st["fixVersionResolution"] = steps["fixVersionResolution"]
           /\ st["issueSearch"] = steps["issueSearch"]
           /\ st["parentFeatures"] = steps["parentFeatures"]
           /\ Get(st["fixVersionResolution"].data).version = ReportOf.fixVersion
           /\ Get(st["issueSearch"].data).issues = issues
           /\ Executed(st, "parentFeatures")
           /\ st["parentFeatures"].status = "success" =>
                 Get(st["parentFeatures"].data).uniqueParentKeys = UniqueParentKeys(issues)
\* A report was returned with steps 1-4 success and the log download failed.
ReportAfterFailedLogDownload ==
    /\ Returned
    /\ \A slot \in {"fixVersionResolution", "issueSearch", "parentFeatures", "branchDiscovery"} :
          ReportOf.steps[slot].status = "success"
    /\ ReportOf.steps["logDownload"].status = "failed"
    /\ ReportOf.overallStatus = "partial"

\* Invocation i asked for a dry run: dry_run was true or was left out.
DryRunAsked(i) == invocations[i].dry_run \in {None, Some(TRUE)}
RequestsOf(i) == {r \in 1..Len(requests) : requests[r].by = i}

\* C22: over any sequence of invocations of confluence_create_page and
\* confluence_update_page, an invocation with dry_run true or omitted issues
\* no request and returns a preview, and every page-creating POST and
\* page-updating PUT comes from an invocation of the matching tool whose
\* dry_run was explicitly false.
DryRunIssuesNoRequest ==
    /\ \A i \in 1..Len(invocations) :
          DryRunAsked(i) =>
             /\ RequestsOf(i) = {}
             /\ IsSome(invocations[i].result)
             /\ Get(invocations[i].result).success
             /\ Get(invocations[i].result).data.dry_run
    /\ \A r \in 1..Len(requests) :
          /\ requests[r].by \in 1..Len(invocations)
          /\ invocations[requests[r].by].dry_run = Some(FALSE)
          /\ requests[r].method = "POST" <=>
                invocations[requests[r].by].tool = "confluence_create_page"
          /\ requests[r].method = "PUT" <=>
                invocations[requests[r].by].tool = "confluence_update_page"
\* A creation without dry_run returned a preview, then an update with dry_run
\* false issued the only request, then a creation with dry_run true returned a
\* preview.
PreviewsAroundOneUpdate ==
    /\ Len(invocations) = 3
    /\ invocations[1].tool = "confluence_create_page" /\ invocations[1].dry_run = None
    /\ invocations[2].tool = "confluence_update_page" /\ invocations[2].dry_run = Some(FALSE)
    /\ invocations[3].tool = "confluence_create_page" /\ invocations[3].dry_run = Some(TRUE)
    /\ Len(requests) = 1 /\ requests[1].method = "PUT" /\ requests[1].by = 2

\* The page fetches of the repository listing, and the fetch of page p.
PageFetches == {i \in 1..Len(calls) : calls[i].api = "listRepos.page"}
FetchOf(p) == CHOOSE i \in PageFetches : calls[i].num = p
FirstPageOk == 1 \in {calls[i].num : i \in PageFetches}
               /\ IsSome(answers[FetchOf(1)]) /\ Get(answers[FetchOf(1)]).ok
\* The last page the first answer reports.
ReportedLastPage ==
    IF IsSome(Get(answers[FetchOf(1)]).lastPage)
    THEN Get(Get(answers[FetchOf(1)]).lastPage) ELSE 1
\* The repositories of page p: none when its fetch failed.
ReposOfPage(p) ==
    IF Get(answers[FetchOf(p)]).ok THEN Get(answers[FetchOf(p)]).repos ELSE << >>
RECURSIVE PagesUpTo(_)
\* The pages 1..p joined in page-number order.
PagesUpTo(p) == IF p = 0 THEN << >> ELSE PagesUpTo(p - 1) \o ReposOfPage(p)
\* The listing is over: every page fetch it asked for has been answered.
ListingOver ==
    /\ FirstPageOk
    /\ \A p \in 1..ReportedLastPage :
          p \in {calls[i].num : i \in PageFetches} /\ IsSome(answers[FetchOf(p)])

\* C23: the first page is fetched alone, and its failure makes the listing an
\* error with no repository; after it the pages 2..last are fetched together,
\* and whatever pages fail and in whatever order the fetches complete the
\* listing succeeds with the repositories of the successful pages joined in
\* page-number order.
ListingJoinsPagesInOrder ==
    /\ \A i \in PageFetches : \A j \in PageFetches : calls[i].num = calls[j].num => i = j
    /\ \A i \in PageFetches :
          calls[i].num > 1 =>
             /\ FirstPageOk
             /\ \A p \in 2..ReportedLastPage : p \in {calls[j].num : j \in PageFetches}
             /\ calls[i].num <= ReportedLastPage
    /\ (PageFetches # {} /\ IsSome(answers[FetchOf(1)]) /\ ~Get(answers[FetchOf(1)]).ok) =>
          /\ Cardinality(PageFetches) = 1
          /\ steps["branchDiscovery"].status = "failed"
          /\ steps["branchDiscovery"].error = Some(ListReposFailed.summary)
          /\ ListReposFailed.data = << >>
          /\ \A c \in 1..Len(calls) : calls[c].api # "listBranches"
    /\ (ListingOver /\ pc = "awaitBranches") =>
          locals.repos = FilterRepos(PagesUpTo(ReportedLastPage), AppId, "code", "active")
    /\ (ListingOver /\ "branchDiscovery" \in Range(assigned)) =>
          /\ steps["branchDiscovery"].status = "success"
          /\ Get(steps["branchDiscovery"].data).repos =
               LET l == FilterRepos(PagesUpTo(ReportedLastPage), AppId, "code", "active")
               IN [k \in 1..Len(l) |-> l[k].name]
\* Of three pages the third has been answered while the second is in flight,
\* and its repository waits in the place of its page number.
ThirdPageAnsweredBeforeSecond ==
    /\ pc = "awaitPages"
    /\ FirstPageOk
    /\ ReportedLastPage = 3
    /\ ~IsSome(answers[FetchOf(2)])
    /\ IsSome(answers[FetchOf(3)])
    /\ locals.pages = <<None, Some(<<RepoOfPage(3)>>)>>

\* github_list_repos has been called with type all, given or by default, and
\* has returned.
ListReposToolReturned ==
    /\ utilCall.fn = "github_list_repos"
    /\ utilCall.type \in {None, Some("all")}
    /\ IsSome(utilResult)
\* The name-prefix filter in force: the appId argument, else the configured one.
PrefixInForce == IF IsSome(utilCall.appId) THEN Get(utilCall.appId) ELSE utilCall.configAppId
\* The places of the fetched repositories whose name starts with the prefix in
\* force, in any letter case; every place when no prefix is set.
PrefixedPlaces ==
    {i \in 1..Len(utilCall.fetched) :
        LET name == utilCall.fetched[i].name
        IN \/ PrefixInForce = << >>
           \/ /\ Len(name) >= Len(PrefixInForce)
              /\ ToLowerCase(SubSeq(name, 1, Len(PrefixInForce))) = ToLowerCase(PrefixInForce)}

\* C24 (as stated): github_list_repos with type all returns every repository
\* fetched for the organisation that passes the appId name-prefix filter, when
\* one is set: none is dropped for its name suffix or its archived flag.
ListReposToolReturnsAllFetched ==
    ListReposToolReturned =>
        /\ Get(utilResult).success
        /\ \A i \in PrefixedPlaces :
              \E n \in 1..Len(Get(utilResult).data) :
                 Get(utilResult).data[n] = utilCall.fetched[i]
        /\ Len(Get(utilResult).data) = Cardinality(PrefixedPlaces)

\* loadAllConfigs has been called and has returned the two configurations.
ConfigsReturned ==
    /\ utilCall.fn = "loadAllConfigs"
    /\ IsSome(utilResult)
    /\ Get(utilResult).kind = "returns"
\* The environment defines neither BASE_URL nor API_TOKEN, and each file
\* defines both, with values that differ between the files.
BothFilesDefineCredentials ==
    /\ \A k \in {"BASE_URL", "API_TOKEN"} :
          /\ ~IsSome(utilCall.env[k])
          /\ IsSome(utilCall.jiraFile[k]) /\ Get(utilCall.jiraFile[k]) \notin {<< >>, <<" ">>}
          /\ IsSome(utilCall.githubFile[k]) /\ Get(utilCall.githubFile[k]) # << >>
          /\ utilCall.jiraFile[k] # utilCall.githubFile[k]

\* C25 (as stated): when both sibling .env files define BASE_URL and API_TOKEN
\* with different values and the environment defines neither, the jira
\* configuration returned carries the values of the Jira file and the github
\* configuration those of the GitHub file.
ConfigsCarryOwnCredentials ==
    (ConfigsReturned /\ BothFilesDefineCredentials) =>
        LET cfg == Get(Get(utilResult).value)
        IN /\ cfg.jira.baseUrl = Get(utilCall.jiraFile["BASE_URL"])
           /\ cfg.jira.apiToken = Get(utilCall.jiraFile["API_TOKEN"])
           /\ cfg.github.baseUrl = Get(utilCall.githubFile["BASE_URL"])
           /\ cfg.github.apiToken = Get(utilCall.githubFile["API_TOKEN"])

\* The braces of kind c that stand inside a quoted string of the JSON object
\* which starts at place b and truly closes at place e (texts without
\* escaped quotes: a place is quoted when an odd number of quotes precede it).
QuotedBraces(s, b, e, c) ==
    {k \in b..e : s[k] = c /\ Cardinality({q \in b..(k - 1) : s[q] = "\""}) % 2 = 1}
UnbalancedError ==
    BuildError(Lit("Found 'Payload: {' but could not find matching closing brace."), None)

PayloadWithQuotedOpener ==
    /\ PayloadReturned
    /\ utilCall.logContent =
         <<"P","a","y","l","o","a","d",":"," ","{","\"","a","\"",":","\"","{","\"","}","}">>
    /\ PayloadText(utilCall.logContent) = <<"{","\"","a","\"",":","\"","{","\"","}","}">>
    /\ ~Get(utilResult).success

\* The archive downloads issued by the payloadExtraction work.
ExtractionDownloads ==
    {i \in 1..Len(calls) :
        calls[i].api = "downloadRunLogs" /\ calls[i].step = "payloadExtraction"}

\* C27: whenever logDownload is failed, payloadExtraction is skipped and no
\* second archive download is issued; payloadExtraction is success or failed
\* only when logDownload is success.
ExtractionOnlyAfterDownload ==
    /\ steps["logDownload"].status = "failed" =>
          /\ steps["payloadExtraction"].status = "skipped"
          /\ ExtractionDownloads = {}
    /\ Executed(steps, "payloadExtraction") => steps["logDownload"].status = "success"
    /\ ExtractionDownloads # {} => steps["logDownload"].status = "success"
\* The invocation returned after a download that was answered and whose
\* archive made logDownload fail, the extraction being skipped.
ReturnedAfterUnusableArchive ==
    /\ Returned
    /\ steps["logDownload"].status = "failed"
    /\ \E i \in LogDownloads : IsSome(answers[i])
    /\ steps["payloadExtraction"].status = "skipped"
    /\ ReportOf.steps["payloadExtraction"].status = "skipped"

\* The place of repository r in the order in which the listings were issued.
ListingPlace(r) ==
    CHOOSE n \in 1..Len(BranchListings) :
        /\ calls[BranchListings[n]].repo = r
        /\ \A k \in 1..(n - 1) : calls[BranchListings[k]].repo # r
\* What the matcher gives on the answer to the n-th listing alone.
MatchesOfListing(n) ==
    LET c == BranchListings[n]
        a == Get(answers[c])
    IN IF ~a.ok THEN << >>
       ELSE FindBranchesMatchingJiraIds(
                [b \in 1..Len(a.branches) |->
                    [name |-> a.branches[b].name, repo |-> calls[c].repo]],
                [k \in 1..Len(issues) |-> issues[k].key])

\* C28: the result of branchDiscovery does not depend on the order in which
\* the concurrent branch listings are answered. While listings are in flight
\* each answer is kept at the place of its repository; in the result the
\* matches follow the order in which the repositories were listed, those of
\* one repository being the matcher's output on its own answer, and the target
\* repository is the first listed repository that has a match.
BranchDiscoveryOrderFixed ==
    /\ pc = "awaitBranches" =>
          \A n \in 1..Len(BranchListings) :
             LET c == BranchListings[n]
             IN /\ IsSome(locals.branchResults[n]) <=> IsSome(answers[c])
                /\ IsSome(answers[c]) =>
                      Get(locals.branchResults[n]) =
                          ListBranches(Get(answers[c]), calls[c].repo)
    /\ ("branchDiscovery" \in Range(assigned) /\ steps["branchDiscovery"].status = "success") =>
          LET matches == Get(steps["branchDiscovery"].data).matches
          IN /\ \A i, j \in 1..Len(matches) :
                   i < j => ListingPlace(matches[i].repo) <= ListingPlace(matches[j].repo)
             /\ \A n \in 1..Len(BranchListings) :
                   SelectSeq(matches, LAMBDA m : m.repo = calls[BranchListings[n]].repo)
                       = MatchesOfListing(n)
             /\ matches # << >> =>
                   /\ IsSome(TargetRepo(steps))
                   /\ MatchesOfListing(ListingPlace(Get(TargetRepo(steps)))) # << >>
                   /\ \A k \in 1..(ListingPlace(Get(TargetRepo(steps))) - 1) :
                         MatchesOfListing(k) = << >>
\* The listing of the second repository was answered, with branches that
\* match, while the listing of the first was still in flight.
LaterListingAnsweredFirst ==
    /\ Awaiting("awaitBranches")
    /\ Len(BranchListings) = 2
    /\ ~IsSome(answers[BranchListings[1]])
    /\ IsSome(answers[BranchListings[2]])
    /\ MatchesOfListing(2) # << >>
    /\ locals.branchResults[1] = None
    /\ IsSome(locals.branchResults[2])

\* C29: the envelope returned by runAppReleaseSummary has success TRUE and an
\* empty errors list in every run, whatever the overallStatus of the report
\* it carries; the failures are told by the report alone.
EnvelopeAlwaysSuccess ==
    Returned =>
        /\ Get(response).success
        /\ Get(response).errors = << >>
        /\ ReportOf.overallStatus = OverallStatus(steps)
        /\ ReportOf.overallStatus \in {"complete", "partial", "failed"}
\* A run whose report says failed was returned in an envelope of success.
FailedRunInSuccessEnvelope ==
    /\ Returned
    /\ ReportOf.overallStatus = "failed"
    /\ \E slot \in {"fixVersionResolution", "issueSearch"} : steps[slot].status = "failed"
    /\ Get(response).success
    /\ Get(response).errors = << >>
\* A run whose report says partial was returned in an envelope of success.
PartialRunInSuccessEnvelope ==
    /\ Returned
    /\ ReportOf.overallStatus = "partial"
    /\ Get(response).success

\* Every archive download of the invocation, of either sub-step.
ArchiveDownloads == {i \in 1..Len(calls) : calls[i].api = "downloadRunLogs"}

\* C30: payloadExtraction downloads the archive of exactly the run and the
\* repository recorded in the result of logDownload and never lists the
\* workflow runs, forceLogRefresh set or not: an invocation lists the runs at
\* most once, within logDownload, and downloads an archive at most twice, once
\* in each sub-step, both times for the same run and repository.
ExtractionReusesResolvedRun ==
    /\ \A e \in ExtractionDownloads :
          /\ steps["logDownload"].status = "success"
          /\ calls[e].num = Get(steps["logDownload"].data).runId
          /\ calls[e].repo = Get(steps["logDownload"].data).repo
          /\ \A d \in LogDownloads : d < e
          /\ \A l \in RunListings : l < e
    /\ \A l \in RunListings : calls[l].step = "logDownload"
    /\ Cardinality(RunListings) <= 1
    /\ Cardinality(LogDownloads) <= 1
    /\ Cardinality(ExtractionDownloads) <= 1
    /\ Cardinality(ArchiveDownloads) <= 2
    /\ \A d, e \in ArchiveDownloads : calls[d].num = calls[e].num /\ calls[d].repo = calls[e].repo
\* With a run id supplied and forceLogRefresh set, the invocation returned
\* after one listing of the runs and two downloads of the run it resolved,
\* which is not the run supplied.
ForcedRefreshListsOnceDownloadsTwice ==
    /\ Returned
    /\ input.forceLogRefresh
    /\ IsSome(input.workflowRunId)
    /\ Cardinality(RunListings) = 1
    /\ Cardinality(ArchiveDownloads) = 2
    /\ ExtractionDownloads # {}
    /\ \A d \in ArchiveDownloads :
          /\ calls[d].num = Get(steps["logDownload"].data).runId
          /\ calls[d].num # Get(input.workflowRunId)

====
